---- MODULE Spec2Model ----
(***************************************************************************)
(* Model of curia-network/iframe-api-proxy: the Requestor (ApiProxyClient), *)
(* the Responder (ApiProxyServer), the wire protocol between them and the   *)
(* pure helpers of the types modules.                                       *)
(*                                                                          *)
(* Conventions.  A JavaScript object is a record; an absent optional        *)
(* property is an absent field.  A string the code inspects character by    *)
(* character (an origin, a whitelist entry) is a sequence of one-character  *)
(* strings.  The message channel is a bag of message events (no ordering    *)
(* is assumed).  The timestamp property of a wire message is read by no     *)
(* handler and is left out.                                                 *)
(***************************************************************************)
EXTENDS Naturals, Sequences, FiniteSets, Bags, TLC

(***************************************************************************)
(* Bounds of the model.                                                     *)
(***************************************************************************)
\* number of calls the application makes on the Requestor
MaxCalls == 2
\* largest maxRetries the Requestor is configured with
MaxRetriesCfg == 1
\* number of message events other pages put on the Responder's window
MaxForeign == 2

CallIds == 1..MaxCalls

(***************************************************************************)
(* Small generic helpers for Map objects.                                   *)
(***************************************************************************)
MapSet(m, k, v) == [x \in (DOMAIN m) \cup {k} |-> IF x = k THEN v ELSE m[x]]
MapDelete(m, k) == [x \in (DOMAIN m) \ {k} |-> m[x]]
EmptyMap == << >>

(***************************************************************************)
(* ApiTypes: the Method-to-Endpoint table and the request validators.       *)
(***************************************************************************)
API_ENDPOINTS ==
  [ getUserInfo        |-> "/api/user",
    getUserFriends     |-> "/api/user",
    getContextData     |-> "/api/user",
    getCommunityInfo   |-> "/api/community",
    giveRole           |-> "/api/community",
    getUserCommunities |-> "/api/communities",
    getUserProfile     |-> "/api/auth/validate-session" ]



\* Property names every plain object literal inherits from Object.prototype.
ObjectPrototypeProps == {"constructor", "toString"}

\* obj[key] on a plain object literal whose own properties are the strings of
\* `table`: an own property gives its string, an inherited one gives a
\* (truthy) non-string value, anything else gives undefined.
PropertyLookup(table, key) ==
  IF key \in DOMAIN table THEN [kind |-> "string", value |-> table[key]]
  ELSE IF key \in ObjectPrototypeProps THEN [kind |-> "inherited", value |-> key]
  ELSE [kind |-> "undefined", value |-> ""]

\* JavaScript truthiness of a looked-up property.
LookupTruthy(l) == l.kind = "inherited" \/ (l.kind = "string" /\ l.value # "")

\* Truthiness of an optional string property of an object.
TruthyStr(obj, f) == f \in DOMAIN obj /\ obj[f] # ""

validateApiRequest(request) ==
  /\ TruthyStr(request, "method")
  /\ TruthyStr(request, "userId")
  /\ TruthyStr(request, "communityId")
  /\ LookupTruthy(PropertyLookup(API_ENDPOINTS, request.method))

validatePluginRequest(request) ==
  /\ "type" \in DOMAIN request /\ request.type = "plugin"
  /\ TruthyStr(request, "method")
  /\ TruthyStr(request, "userId")
  /\ TruthyStr(request, "communityId")
  /\ LookupTruthy(PropertyLookup(API_ENDPOINTS, request.method))

validateDirectApiRequest(request) ==
  /\ "type" \in DOMAIN request /\ request.type = "direct"
  /\ TruthyStr(request, "url")

validateProxyRequest(request) ==
  IF "type" \notin DOMAIN request THEN FALSE
  ELSE IF request.type = "plugin" THEN validatePluginRequest(request)
  ELSE IF request.type = "direct" THEN validateDirectApiRequest(request)
  ELSE FALSE

\* The optional properties of a structured call that are defined on `r`.
OptionalFields(r) ==
  [f \in (DOMAIN r) \cap {"params", "signature"} |-> r[f]]

\* A conversion that forgets the signature of the legacy request.
convertLegacyRequest_DropsSignature(legacyRequest) ==
  [type |-> "plugin"]
    @@ [f \in (DOMAIN legacyRequest) \cap {"method", "userId", "communityId", "params"} |->
          legacyRequest[f]]

\* A property the payload lacks is copied as undefined, which every reader
\* treats as an absent property.
convertLegacyRequest(legacyRequest) ==
  [type |-> "plugin"]
    @@ [f \in (DOMAIN legacyRequest) \cap {"method", "userId", "communityId"}
          |-> legacyRequest[f]]
    @@ OptionalFields(legacyRequest)

\* getEndpointForMethod: the looked-up endpoint, or a throw when it is falsy.
getEndpointForMethod(method) ==
  LET l == PropertyLookup(API_ENDPOINTS, method)
  IN  IF LookupTruthy(l) THEN [ok |-> TRUE, value |-> l]
      ELSE [ok |-> FALSE, value |-> l]

(***************************************************************************)
(* ProxyTypes: errors.                                                      *)
(***************************************************************************)
createProxyError(type, message) == [type |-> type, message |-> message]

TimeoutError == createProxyError("TIMEOUT", "Request timeout")
DestroyedError == createProxyError("INITIALIZATION_ERROR", "Proxy client destroyed")
NotInitializedError == createProxyError("INITIALIZATION_ERROR", "Proxy client not initialized")
NoIframeError == createProxyError("NO_ACTIVE_IFRAME", "No active iframe available for API requests")
NoWindowError == createProxyError("NO_ACTIVE_IFRAME", "Active iframe content window not available")
InvalidApiRequestError == createProxyError("INVALID_REQUEST", "Invalid API request format")
InvalidDirectRequestError == createProxyError("INVALID_REQUEST", "Invalid direct API request format")
InvalidPluginRequestError == createProxyError("INVALID_REQUEST", "Invalid plugin request format")
\* what postMessage throws for a message the structured clone cannot copy
DataCloneError == [type |-> "DataCloneError", message |-> "could not be cloned"]

(***************************************************************************)
(* MessageTypes: constructors and structural predicates.                    *)
(***************************************************************************)
PROXY_API_REQUEST == "proxy-api-request"
PROXY_API_RESPONSE == "proxy-api-response"
PROXY_ERROR == "proxy-error"

createProxyRequest(requestId, endpoint, payload) ==
  [type |-> PROXY_API_REQUEST, requestId |-> requestId,
   endpoint |-> endpoint, payload |-> payload]

createEnhancedProxyRequest(requestId, request) ==
  [type |-> PROXY_API_REQUEST, requestId |-> requestId, request |-> request]

createProxyResponse(requestId, response) ==
  [type |-> PROXY_API_RESPONSE, requestId |-> requestId, response |-> response]

\* message?.type === T
HasType(message, t) == "type" \in DOMAIN message /\ message.type = t
\* message?.requestId is truthy (0 stands for the empty string)
HasRequestId(message) == "requestId" \in DOMAIN message /\ message.requestId # 0

isProxyApiResponse(message) ==
  /\ HasType(message, PROXY_API_RESPONSE)
  /\ HasRequestId(message)
  /\ "response" \in DOMAIN message

isProxyError(message) ==
  /\ HasType(message, PROXY_ERROR)
  /\ HasRequestId(message)
  /\ TruthyStr(message, "error")

\* The JSON value null.
Null == [primitive |-> TRUE, null |-> TRUE]

\* message?.request is truthy: the property is there and is not null
HasRequest(message) == "request" \in DOMAIN message /\ message.request # Null

isEnhancedProxyRequest(message) ==
  /\ HasType(message, PROXY_API_REQUEST)
  /\ HasRequestId(message)
  /\ HasRequest(message)
  /\ "type" \in DOMAIN message.request
  /\ message.request.type \in {"plugin", "direct"}

isLegacyProxyRequest(message) ==
  /\ HasType(message, PROXY_API_REQUEST)
  /\ HasRequestId(message)
  /\ TruthyStr(message, "endpoint")
  /\ "payload" \in DOMAIN message /\ message.payload # Null
  /\ ~HasRequest(message)

isAnyProxyRequest(message) ==
  isEnhancedProxyRequest(message) \/ isLegacyProxyRequest(message)

\* A format test that takes an envelope for legacy whenever it has the
\* legacy fields.
isUsingEnhancedFormat_LegacyFirst(message) ==
  HasRequest(message) /\ ~({"endpoint", "payload"} \subseteq DOMAIN message)

\* 'request' in message && !!message.request
isUsingEnhancedFormat(message) == HasRequest(message)

\* typeof event.data === 'object' and event.data is truthy
IsObject(data) == "primitive" \notin DOMAIN data


(***************************************************************************)
(* State.                                                                   *)
(***************************************************************************)
VARIABLES
  \* ---- Requestor (ApiProxyClient) ----
  config,            \* the Requestor's merged configuration
  isInitialized,     \* ApiProxyClient.isInitialized
  messageListener,   \* TRUE while the client's listener is attached
  activeIframe,      \* "null" or the iframe element set by the application
  pendingRequests,   \* Map requestId -> PendingRequest
  requestTimeouts,   \* Map requestId -> RequestTimeout (its timeoutId)
  timers,            \* scheduled, not yet fired or cleared, timeout callbacks
  retryTimers,       \* scheduled retry callbacks (closures of retryRequest)
  waits,             \* per call: the delays retryRequest gave setTimeout, in order
  totalRequests,
  totalErrors,
  responseTimes,     \* one sample per entry, named by the request it measured
  \* ---- the application around the Requestor ----
  calls,             \* number of calls made so far
  settle,            \* per call: the continuations invoked, in order
  sent,              \* per call: the postMessage calls made for it, in order
  \* ---- channel ----
  toServer,          \* bag of message events queued for the Responder's window
  toClient,          \* bag of message events queued for the Requestor's window
  \* ---- Responder (ApiProxyServer) ----
  serverConfig,      \* the Responder's merged configuration
  construction,      \* the constructor call made and how it ended
  toParent,          \* the messages the Responder posted to window.parent
  serverListener,    \* TRUE while the server's listener is attached
  serverInitialized, \* ApiProxyServer.isInitialized
  dispatched,        \* the message events the Responder's window dispatched
  requestCount,
  lastRequestTime,   \* Date.now() at the latest accepted request, 0 before the first
  errorCount,
  jobs               \* per accepted request: its execution and what it posted

clientVars == <<config, isInitialized, messageListener, activeIframe,
                pendingRequests, requestTimeouts, timers, retryTimers, waits,
                totalRequests, totalErrors, responseTimes>>
appVars == <<calls, settle, sent>>
serverVars == <<serverConfig, construction, toParent, serverListener, serverInitialized, dispatched,
                requestCount, lastRequestTime, errorCount, jobs>>
vars == <<clientVars, appVars, toServer, toClient, serverVars>>

(***************************************************************************)
(* The iframe elements the application may hand to the Requestor.  "A"      *)
(* hosts the Responder, "B" is another live frame, "D" is an element whose  *)
(* contentWindow is null (not attached to a document).                      *)
(***************************************************************************)
Iframes == {"A", "B", "D"}
HasContentWindow(iframe) == iframe \in {"A", "B"}
ResponderFrame == "A"

\* origin of the page the Requestor runs in
ClientOrigin == <<"c", ".", "e">>

\* A message event as the receiving window sees it.
MessageEvent(data, origin, source) ==
  [data |-> data, origin |-> origin, source |-> source]

(***************************************************************************)
(* Requestor: sending.                                                      *)
(***************************************************************************)
\* Whether the structured clone of postMessage can copy the message: a
\* function-valued endpoint (an inherited property) cannot be cloned.
Cloneable(message) ==
  ~("endpoint" \in DOMAIN message /\ message.endpoint.kind = "inherited")

\* The wire form of a cloned message: a string-valued endpoint is its string.
Wire(message) ==
  IF "endpoint" \in DOMAIN message
  THEN [message EXCEPT !.endpoint = message.endpoint.value]
  ELSE message

\* contentWindow.postMessage(message, '*') on the active iframe.
PostToIframe(message) ==
  IF ~HasContentWindow(activeIframe) THEN [ok |-> FALSE, error |-> NoWindowError]
  ELSE IF ~Cloneable(message) THEN [ok |-> FALSE, error |-> DataCloneError]
  ELSE [ok |-> TRUE, target |-> activeIframe, data |-> Wire(message)]

\* sendRequestToIframe: the legacy envelope.
sendRequestToIframe(requestId, request) ==
  IF ~HasContentWindow(activeIframe) THEN [ok |-> FALSE, error |-> NoWindowError]
  ELSE LET e == getEndpointForMethod(request.method)
       IN  IF ~e.ok
           THEN [ok |-> FALSE, error |-> [type |-> "Error", message |-> "Unknown API method"]]
           ELSE PostToIframe(createProxyRequest(requestId, e.value, request))

\* sendEnhancedRequestToIframe: the enhanced envelope.
sendEnhancedRequestToIframe(requestId, request) ==
  IF ~HasContentWindow(activeIframe) THEN [ok |-> FALSE, error |-> NoWindowError]
  ELSE PostToIframe(createEnhancedProxyRequest(requestId, request))

\* The channel after a successful post of `s`: only the frame hosting the
\* Responder has a listener that can take the event.
Delivered(s) ==
  IF s.ok /\ s.target = ResponderFrame
  THEN toServer (+) SetToBag({MessageEvent(s.data, ClientOrigin, "client")})
  ELSE toServer

\* The record of the posts made for call c after send result s.
Logged(c, s) ==
  IF s.ok
  THEN [sent EXCEPT ![c] = Append(@, [target |-> s.target, data |-> s.data])]
  ELSE sent

(***************************************************************************)
(* Requestor: timers and cleanup.                                           *)
(***************************************************************************)
\* The handle setTimeout returns when setupRequestTimeout arms attempt n of
\* request requestId (handles are fresh; attempt numbers name them).
TimeoutHandle(requestId, n) == [requestId |-> requestId, timeoutId |-> n]

\* A cleanupRequest that leaves the record in the map.
cleanupPending_KeepsRecord(pending, requestId) == pending

\* A cleanupRequest that forgets the timeout entry without calling
\* clearTimeout on it.
cleanupTimers_LeavesArmed(timeouts, live, requestId) == live

\* cleanupRequest on the given maps: the three structures it leaves.
cleanupPending(pending, requestId) == MapDelete(pending, requestId)
cleanupTimeouts(timeouts, requestId) == MapDelete(timeouts, requestId)
cleanupTimers(timeouts, live, requestId) ==
  IF requestId \in DOMAIN timeouts THEN live \ {timeouts[requestId]} ELSE live

\* The caller's continuation of call c invoked with kind and value.
Settled(c, kind, value) ==
  [settle EXCEPT ![c] = Append(@, [kind |-> kind, value |-> value])]


(***************************************************************************)
(* Requestor: the calls of the public API.                                  *)
(***************************************************************************)
\* generateRequestId: unique per process; the ordinal of the id generated.
generateRequestId == totalRequests + 1

\* The request object each entry point builds from its arguments.
BuiltRequest(inp) ==
  IF inp.api = "makeApiRequest" THEN inp.request
  ELSE IF inp.api = "makePluginRequest"
  THEN [type |-> "plugin", method |-> inp.method, userId |-> inp.userId,
        communityId |-> inp.communityId] @@ OptionalFields(inp)
  ELSE inp.options
         @@ [type |-> "direct", url |-> inp.url,
             method |-> IF "method" \in DOMAIN inp.options
                        THEN inp.options.method ELSE "GET"]

\* The validation each entry point applies, and the error it throws.
InputValid(inp) ==
  IF inp.api = "makeApiRequest" THEN validateApiRequest(inp.request)
  ELSE validateProxyRequest(BuiltRequest(inp))

InputError(inp) ==
  IF inp.api = "makeApiRequest" THEN InvalidApiRequestError
  ELSE IF inp.api = "makePluginRequest" THEN InvalidPluginRequestError
  ELSE InvalidDirectRequestError

\* The send each entry point (and each retry) uses for a stored request.
SendFor(api, requestId, request) ==
  IF api = "makeApiRequest" THEN sendRequestToIframe(requestId, request)
  ELSE sendEnhancedRequestToIframe(requestId, request)

\* An entry point that does not look at the target handle before it
\* generates a correlation id.
Call_SkipsTargetCheck(inp) ==
  /\ calls < MaxCalls
  /\ calls' = calls + 1
  /\ LET c == calls + 1
         Throw(e) ==
           /\ settle' = Settled(c, "throw", e)
           /\ UNCHANGED <<clientVars, sent, toServer>>
     IN  IF ~isInitialized THEN Throw(NotInitializedError)
         ELSE IF ~InputValid(inp) THEN Throw(InputError(inp))
         ELSE
           LET requestId == generateRequestId
               request == BuiltRequest(inp)
               pendingRequest ==
                 [requestId |-> requestId, call |-> c, retryCount |-> 0,
                  originalRequest |-> request]
               h == TimeoutHandle(requestId, 0)
               s == SendFor(inp.api, requestId, request)
           IN  /\ totalRequests' = totalRequests + 1
               /\ IF s.ok
                  THEN /\ pendingRequests' = MapSet(pendingRequests, requestId, pendingRequest)
                       /\ requestTimeouts' = MapSet(requestTimeouts, requestId, h)
                       /\ timers' = timers \cup {h}
                       /\ UNCHANGED settle
                  ELSE /\ pendingRequests' = cleanupPending(pendingRequests, requestId)
                       /\ requestTimeouts' = cleanupTimeouts(requestTimeouts, requestId)
                       /\ timers' = timers
                       /\ settle' = Settled(c, "reject", s.error)
               /\ toServer' = Delivered(s)
               /\ sent' = Logged(c, s)
               /\ UNCHANGED <<config, isInitialized, messageListener,
                              activeIframe, retryTimers, waits, totalErrors, responseTimes>>
  /\ UNCHANGED <<toClient, serverVars>>

\* makeApiRequest / makePluginRequest / makeDirectRequest with arguments inp.
Call(inp) ==
  /\ calls < MaxCalls
  /\ calls' = calls + 1
  /\ LET c == calls + 1
         Throw(e) ==
           /\ settle' = Settled(c, "throw", e)
           /\ UNCHANGED <<clientVars, sent, toServer>>
     IN  IF ~isInitialized THEN Throw(NotInitializedError)
         ELSE IF activeIframe = "null" THEN Throw(NoIframeError)
         ELSE IF ~InputValid(inp) THEN Throw(InputError(inp))
         ELSE
           LET requestId == generateRequestId
               request == BuiltRequest(inp)
               pendingRequest ==
                 [requestId |-> requestId, call |-> c, retryCount |-> 0,
                  originalRequest |-> request]
               h == TimeoutHandle(requestId, 0)
               s == SendFor(inp.api, requestId, request)
           IN  /\ totalRequests' = totalRequests + 1
               /\ IF s.ok
                  THEN /\ pendingRequests' = MapSet(pendingRequests, requestId, pendingRequest)
                       /\ requestTimeouts' = MapSet(requestTimeouts, requestId, h)
                       /\ timers' = timers \cup {h}
                       /\ UNCHANGED settle
                  ELSE \* catch: cleanupRequest(requestId); reject(error)
                       /\ pendingRequests' = cleanupPending(pendingRequests, requestId)
                       /\ requestTimeouts' = cleanupTimeouts(requestTimeouts, requestId)
                       /\ timers' = timers
                       /\ settle' = Settled(c, "reject", s.error)
               /\ toServer' = Delivered(s)
               /\ sent' = Logged(c, s)
               /\ UNCHANGED <<config, isInitialized, messageListener,
                              activeIframe, retryTimers, waits, totalErrors, responseTimes>>
  /\ UNCHANGED <<toClient, serverVars>>

SetActiveIframe(iframe) ==
  /\ activeIframe' = iframe
  /\ UNCHANGED <<config, isInitialized, messageListener, pendingRequests,
                 requestTimeouts, timers, retryTimers, waits, totalRequests,
                 totalErrors, responseTimes>>
  /\ UNCHANGED <<appVars, toServer, toClient, serverVars>>

ClearActiveIframe ==
  /\ activeIframe # "null"
  /\ activeIframe' = "null"
  /\ UNCHANGED <<config, isInitialized, messageListener, pendingRequests,
                 requestTimeouts, timers, retryTimers, waits, totalRequests,
                 totalErrors, responseTimes>>
  /\ UNCHANGED <<appVars, toServer, toClient, serverVars>>

(***************************************************************************)
(* Requestor: the error path.                                               *)
(***************************************************************************)
\* retryRequest: the closure it schedules.
RetryClosure(pendingRequest, lastError) ==
  [pendingRequest |-> [pendingRequest EXCEPT !.retryCount = @ + 1],
   lastError |-> lastError,
   delay |-> config.retryDelay]

\* The delay of a scheduled retry, appended to the record of its call.
Waited(c, t) == [waits EXCEPT ![c] = Append(@, t.delay)]

\* A handleRequestError that compares the retry count with <=, granting one
\* retry more than configured.
handleRequestError_OneMoreRetry(requestId, error, live) ==
  IF requestId \notin DOMAIN pendingRequests
  THEN /\ timers' = live
       /\ UNCHANGED <<pendingRequests, requestTimeouts, retryTimers, waits,
                      totalErrors, settle>>
  ELSE LET pendingRequest == pendingRequests[requestId]
       IN  /\ totalErrors' = totalErrors + 1
           /\ pendingRequests' = cleanupPending(pendingRequests, requestId)
           /\ requestTimeouts' = cleanupTimeouts(requestTimeouts, requestId)
           /\ timers' = cleanupTimers(requestTimeouts, live, requestId)
           /\ IF pendingRequest.retryCount <= config.maxRetries
              THEN /\ retryTimers' = retryTimers \cup {RetryClosure(pendingRequest, error)}
                   /\ waits' = Waited(pendingRequest.call, RetryClosure(pendingRequest, error))
                   /\ UNCHANGED settle
              ELSE /\ settle' = Settled(pendingRequest.call, "reject", error)
                   /\ UNCHANGED <<retryTimers, waits>>

\* A handleRequestError that counts the error before it looks the record up.
handleRequestError_CountsFirst(requestId, error, live) ==
  IF requestId \notin DOMAIN pendingRequests
  THEN /\ timers' = live
       /\ totalErrors' = totalErrors + 1
       /\ UNCHANGED <<pendingRequests, requestTimeouts, retryTimers, waits, settle>>
  ELSE LET pendingRequest == pendingRequests[requestId]
       IN  /\ totalErrors' = totalErrors + 1
           /\ pendingRequests' = cleanupPending(pendingRequests, requestId)
           /\ requestTimeouts' = cleanupTimeouts(requestTimeouts, requestId)
           /\ timers' = cleanupTimers(requestTimeouts, live, requestId)
           /\ IF pendingRequest.retryCount < config.maxRetries
              THEN /\ retryTimers' = retryTimers \cup {RetryClosure(pendingRequest, error)}
                   /\ waits' = Waited(pendingRequest.call, RetryClosure(pendingRequest, error))
                   /\ UNCHANGED settle
              ELSE /\ settle' = Settled(pendingRequest.call, "reject", error)
                   /\ UNCHANGED <<retryTimers, waits>>

\* handleRequestError(requestId, error), entered with `live` as the set of
\* scheduled timeout callbacks.
handleRequestError(requestId, error, live) ==
  IF requestId \notin DOMAIN pendingRequests
  THEN /\ timers' = live
       /\ UNCHANGED <<pendingRequests, requestTimeouts, retryTimers, waits,
                      totalErrors, settle>>
  ELSE LET pendingRequest == pendingRequests[requestId]
       IN  /\ totalErrors' = totalErrors + 1
           /\ pendingRequests' = cleanupPending(pendingRequests, requestId)
           /\ requestTimeouts' = cleanupTimeouts(requestTimeouts, requestId)
           /\ timers' = cleanupTimers(requestTimeouts, live, requestId)
           /\ IF pendingRequest.retryCount < config.maxRetries
              THEN /\ retryTimers' = retryTimers \cup {RetryClosure(pendingRequest, error)}
                   /\ waits' = Waited(pendingRequest.call, RetryClosure(pendingRequest, error))
                   /\ UNCHANGED settle
              ELSE /\ settle' = Settled(pendingRequest.call, "reject", error)
                   /\ UNCHANGED <<retryTimers, waits>>

\* The timeout callback armed by setupRequestTimeout fires.
Timeout(h) ==
  /\ h \in timers
  /\ handleRequestError(h.requestId, TimeoutError, timers \ {h})
  /\ UNCHANGED <<config, isInitialized, messageListener, activeIframe,
                 totalRequests, responseTimes>>
  /\ UNCHANGED <<calls, sent, toServer, toClient, serverVars>>

\* A retry callback that re-sends to the target the call was first sent to,
\* not to the target that is set when it fires.
RetryFire_UsesOriginalTarget(t) ==
  /\ t \in retryTimers
  /\ retryTimers' = retryTimers \ {t}
  /\ UNCHANGED waits
  /\ LET pendingRequest == t.pendingRequest
         requestId == pendingRequest.requestId
         h == TimeoutHandle(requestId, pendingRequest.retryCount)
         now == IF "type" \in DOMAIN pendingRequest.originalRequest
                THEN sendEnhancedRequestToIframe(requestId, pendingRequest.originalRequest)
                ELSE sendRequestToIframe(requestId, pendingRequest.originalRequest)
         s == IF now.ok
              THEN [now EXCEPT !.target = sent[pendingRequest.call][1].target]
              ELSE now
     IN  IF activeIframe # "null"
         THEN /\ pendingRequests' = MapSet(pendingRequests, requestId, pendingRequest)
              /\ requestTimeouts' = MapSet(requestTimeouts, requestId, h)
              /\ timers' = timers \cup {h}
              /\ toServer' = Delivered(s)
              /\ sent' = Logged(pendingRequest.call, s)
              /\ UNCHANGED settle
         ELSE /\ settle' = Settled(pendingRequest.call, "reject", t.lastError)
              /\ UNCHANGED <<pendingRequests, requestTimeouts, timers, toServer, sent>>
  /\ UNCHANGED <<config, isInitialized, messageListener, activeIframe,
                 totalRequests, totalErrors, responseTimes>>
  /\ UNCHANGED <<calls, toClient, serverVars>>

\* A retry callback that gives the call up without rejecting it when it
\* finds no target.
RetryFire_GivesUpSilently(t) ==
  /\ t \in retryTimers
  /\ retryTimers' = retryTimers \ {t}
  /\ UNCHANGED waits
  /\ LET pendingRequest == t.pendingRequest
         requestId == pendingRequest.requestId
         h == TimeoutHandle(requestId, pendingRequest.retryCount)
         s == IF "type" \in DOMAIN pendingRequest.originalRequest
              THEN sendEnhancedRequestToIframe(requestId, pendingRequest.originalRequest)
              ELSE sendRequestToIframe(requestId, pendingRequest.originalRequest)
     IN  IF activeIframe # "null"
         THEN /\ pendingRequests' = MapSet(pendingRequests, requestId, pendingRequest)
              /\ requestTimeouts' = MapSet(requestTimeouts, requestId, h)
              /\ timers' = timers \cup {h}
              /\ toServer' = Delivered(s)
              /\ sent' = Logged(pendingRequest.call, s)
              /\ UNCHANGED settle
         ELSE UNCHANGED <<settle, pendingRequests, requestTimeouts, timers,
                          toServer, sent>>
  /\ UNCHANGED <<config, isInitialized, messageListener, activeIframe,
                 totalRequests, totalErrors, responseTimes>>
  /\ UNCHANGED <<calls, toClient, serverVars>>

\* The retry callback scheduled by retryRequest fires.
RetryFire(t) ==
  /\ t \in retryTimers
  /\ retryTimers' = retryTimers \ {t}
  /\ UNCHANGED waits
  /\ LET pendingRequest == t.pendingRequest
         requestId == pendingRequest.requestId
         h == TimeoutHandle(requestId, pendingRequest.retryCount)
         s == IF "type" \in DOMAIN pendingRequest.originalRequest
              THEN sendEnhancedRequestToIframe(requestId, pendingRequest.originalRequest)
              ELSE sendRequestToIframe(requestId, pendingRequest.originalRequest)
     IN  IF activeIframe # "null"
         THEN \* a throw of the send escapes the callback: nothing is undone
              /\ pendingRequests' = MapSet(pendingRequests, requestId, pendingRequest)
              /\ requestTimeouts' = MapSet(requestTimeouts, requestId, h)
              /\ timers' = timers \cup {h}
              /\ toServer' = Delivered(s)
              /\ sent' = Logged(pendingRequest.call, s)
              /\ UNCHANGED settle
         ELSE /\ settle' = Settled(pendingRequest.call, "reject", t.lastError)
              /\ UNCHANGED <<pendingRequests, requestTimeouts, timers, toServer, sent>>
  /\ UNCHANGED <<config, isInitialized, messageListener, activeIframe,
                 totalRequests, totalErrors, responseTimes>>
  /\ UNCHANGED <<calls, toClient, serverVars>>


(***************************************************************************)
(* Requestor: inbound messages.                                             *)
(***************************************************************************)
\* size of the rolling window of response times
ResponseWindow == 100

\* A push that starts to shift one sample early.
PushSample_ShiftsAtLimit(samples, sample) ==
  LET pushed == Append(samples, sample)
  IN  IF Len(pushed) >= ResponseWindow THEN Tail(pushed) ELSE pushed

\* responseTimes.push(sample), then shift() when longer than the window
PushSample(samples, sample) ==
  LET pushed == Append(samples, sample)
  IN  IF Len(pushed) > ResponseWindow THEN Tail(pushed) ELSE pushed

\* A handleProxyResponse that settles the oldest pending call instead of
\* the one the response names.
handleProxyResponse_OldestPending(message) ==
  IF message.requestId \notin DOMAIN pendingRequests
  THEN UNCHANGED <<pendingRequests, requestTimeouts, timers, responseTimes, settle>>
  ELSE LET oldest == CHOOSE id \in DOMAIN pendingRequests :
                       \A other \in DOMAIN pendingRequests : id <= other
           pendingRequest == pendingRequests[oldest]
       IN  /\ responseTimes' = PushSample(responseTimes, oldest)
           /\ pendingRequests' = cleanupPending(pendingRequests, oldest)
           /\ requestTimeouts' = cleanupTimeouts(requestTimeouts, oldest)
           /\ timers' = cleanupTimers(requestTimeouts, timers, oldest)
           /\ settle' = Settled(pendingRequest.call, "resolve", message.response)

\* A handleProxyResponse that also resolves a call whose retry is scheduled.
handleProxyResponse_ResolvesDelayed(message) ==
  IF message.requestId \in DOMAIN pendingRequests
  THEN LET pendingRequest == pendingRequests[message.requestId]
       IN  /\ responseTimes' = PushSample(responseTimes, message.requestId)
           /\ pendingRequests' = cleanupPending(pendingRequests, message.requestId)
           /\ requestTimeouts' = cleanupTimeouts(requestTimeouts, message.requestId)
           /\ timers' = cleanupTimers(requestTimeouts, timers, message.requestId)
           /\ settle' = Settled(pendingRequest.call, "resolve", message.response)
  ELSE IF \E t \in retryTimers : t.pendingRequest.requestId = message.requestId
  THEN LET t == CHOOSE x \in retryTimers : x.pendingRequest.requestId = message.requestId
       IN  /\ settle' = Settled(t.pendingRequest.call, "resolve", message.response)
           /\ UNCHANGED <<pendingRequests, requestTimeouts, timers, responseTimes>>
  ELSE UNCHANGED <<pendingRequests, requestTimeouts, timers, responseTimes, settle>>

\* A handleProxyResponse that rejects the call when the response says
\* success = false.
handleProxyResponse_RejectsFailure(message) ==
  IF message.requestId \notin DOMAIN pendingRequests
  THEN UNCHANGED <<pendingRequests, requestTimeouts, timers, responseTimes, settle>>
  ELSE LET pendingRequest == pendingRequests[message.requestId]
       IN  /\ responseTimes' = PushSample(responseTimes, message.requestId)
           /\ pendingRequests' = cleanupPending(pendingRequests, message.requestId)
           /\ requestTimeouts' = cleanupTimeouts(requestTimeouts, message.requestId)
           /\ timers' = cleanupTimers(requestTimeouts, timers, message.requestId)
           /\ settle' = Settled(pendingRequest.call,
                                IF message.response.success THEN "resolve" ELSE "reject",
                                message.response)

\* handleProxyResponse(message)
handleProxyResponse(message) ==
  IF message.requestId \notin DOMAIN pendingRequests
  THEN UNCHANGED <<pendingRequests, requestTimeouts, timers, responseTimes, settle>>
  ELSE LET pendingRequest == pendingRequests[message.requestId]
       IN  /\ responseTimes' = PushSample(responseTimes, message.requestId)
           /\ pendingRequests' = cleanupPending(pendingRequests, message.requestId)
           /\ requestTimeouts' = cleanupTimeouts(requestTimeouts, message.requestId)
           /\ timers' = cleanupTimers(requestTimeouts, timers, message.requestId)
           /\ settle' = Settled(pendingRequest.call, "resolve", message.response)



\* handleProxyError(message)
handleProxyError(message) ==
  handleRequestError(message.requestId,
                     createProxyError("NETWORK_ERROR", message.error), timers)

\* A listener that distrusts the sender: an envelope that does not come from
\* the window of the target handle fails the call it names.
ClientListener_DistrustsSender(data) ==
  IF IsObject(data) /\ (isProxyApiResponse(data) \/ isProxyError(data))
  THEN /\ handleRequestError(data.requestId,
                             createProxyError("NETWORK_ERROR", "Untrusted sender"), timers)
       /\ UNCHANGED responseTimes
  ELSE UNCHANGED <<pendingRequests, requestTimeouts, timers, retryTimers, waits,
                   totalErrors, responseTimes, settle>>

\* The listener installed by setupMessageListener, run on event.data.
ClientListener(data) ==
  IF IsObject(data) /\ isProxyApiResponse(data)
  THEN /\ handleProxyResponse(data)
       /\ UNCHANGED <<retryTimers, waits, totalErrors>>
  ELSE IF IsObject(data) /\ isProxyError(data)
  THEN /\ handleProxyError(data)
       /\ UNCHANGED responseTimes
  ELSE UNCHANGED <<pendingRequests, requestTimeouts, timers, retryTimers, waits,
                   totalErrors, responseTimes, settle>>

\* The Requestor's window dispatches a queued message event.
ClientReceive(ev) ==
  /\ BagIn(ev, toClient)
  /\ toClient' = toClient (-) SetToBag({ev})
  /\ IF messageListener
     THEN ClientListener(ev.data)
     ELSE UNCHANGED <<pendingRequests, requestTimeouts, timers, retryTimers, waits,
                      totalErrors, responseTimes, settle>>
  /\ UNCHANGED <<config, isInitialized, messageListener, activeIframe,
                 totalRequests>>
  /\ UNCHANGED <<calls, sent, toServer, serverVars>>

\* Another context posts `data` to the Requestor's window and it is dispatched.
ClientReceiveForeign(data) ==
  /\ messageListener
  /\ ClientListener(data)
  /\ UNCHANGED <<config, isInitialized, messageListener, activeIframe,
                 totalRequests>>
  /\ UNCHANGED <<calls, sent, toServer, toClient, serverVars>>

(***************************************************************************)
(* Requestor: teardown.                                                     *)
(***************************************************************************)
\* pendingRequests.forEach(request => request.reject(destroyed))
RECURSIVE RejectAll(_, _, _)
RejectAll(log, pending, ids) ==
  IF ids = {} THEN log
  ELSE LET id == CHOOSE x \in ids : \A y \in ids : x <= y
           c == pending[id].call
       IN  RejectAll([log EXCEPT ![c] = Append(@, [kind |-> "reject", value |-> DestroyedError])],
                     pending, ids \ {id})

\* destroy()
ClientDestroy ==
  /\ settle' = RejectAll(settle, pendingRequests, DOMAIN pendingRequests)
  /\ pendingRequests' = EmptyMap
  /\ timers' = timers \ {requestTimeouts[id] : id \in DOMAIN requestTimeouts}
  /\ requestTimeouts' = EmptyMap
  /\ messageListener' = FALSE
  /\ activeIframe' = "null"
  /\ isInitialized' = FALSE
  /\ UNCHANGED <<config, retryTimers, waits, totalRequests, totalErrors, responseTimes>>
  /\ UNCHANGED <<calls, sent, toServer, toClient, serverVars>>


(***************************************************************************)
(* ProxyTypes: the origin whitelist.                                        *)
(***************************************************************************)
\* new RegExp('^' + allowed.replace(/\*/g, '.*') + '$').test(origin): every
\* "*" of the entry becomes ".*", and every "." of the entry stays an
\* unescaped "." of the regular expression, which matches any character.
RECURSIVE RegExpTest(_, _)
RegExpTest(allowed, origin) ==
  IF allowed = << >> THEN origin = << >>
  ELSE IF Head(allowed) = "*"
  THEN RegExpTest(Tail(allowed), origin)
         \/ (origin # << >> /\ RegExpTest(allowed, Tail(origin)))
  ELSE /\ origin # << >>
       /\ (Head(allowed) = "." \/ Head(allowed) = Head(origin))
       /\ RegExpTest(Tail(allowed), Tail(origin))

\* allowed.includes('*')
HasWildcard(allowed) == \E i \in 1..Len(allowed) : allowed[i] = "*"

isOriginAllowed(origin, allowed) ==
  IF Len(allowed) = 0 THEN TRUE
  ELSE IF \E i \in 1..Len(allowed) : allowed[i] = origin THEN TRUE
  ELSE \E i \in 1..Len(allowed) :
         HasWildcard(allowed[i]) /\ RegExpTest(allowed[i], origin)

(***************************************************************************)
(* Responder: building the outbound network call.                           *)
(***************************************************************************)
\* `${this.config.baseUrl}${endpoint}`: an inherited (function) endpoint is
\* interpolated as its source text.
EndpointText(l) == IF l.kind = "string" THEN l.value ELSE "function () { [native code] }"

Url(base, path) == [base |-> base, path |-> path]

\* getEndpointForPluginMethod: its own copy of the table, same lookup.
methodToEndpoint ==
  [ getUserInfo        |-> "/api/user",
    getUserFriends     |-> "/api/user",
    getContextData     |-> "/api/user",
    getCommunityInfo   |-> "/api/community",
    giveRole           |-> "/api/community",
    getUserCommunities |-> "/api/communities",
    getUserProfile     |-> "/api/auth/validate-session" ]

getEndpointForPluginMethod(method) ==
  LET l == PropertyLookup(methodToEndpoint, method)
  IN  IF LookupTruthy(l) THEN [ok |-> TRUE, value |-> EndpointText(l)]
      ELSE [ok |-> FALSE,
            error |-> createProxyError("INVALID_REQUEST", "Unknown plugin method")]

\* payload.params?.sessionToken, interpolated or serialised
SessionToken(payload) ==
  IF "params" \in DOMAIN payload /\ "sessionToken" \in DOMAIN payload.params
  THEN payload.params.sessionToken ELSE "undefined"

JsonHeader == ("Content-Type" :> "application/json")

\* { ...a, ...b }: the properties of b win
Spread(a, b) == b @@ a

\* The RequestInit makeApiRequest builds for endpoint and payload.
ApiRequestOptions(endpoint, payload, headers) ==
  IF endpoint = "/api/communities"
  THEN [method |-> "GET",
        headers |-> Spread(("Authorization" :> ("Bearer " \o SessionToken(payload)))
                             @@ JsonHeader, headers)]
  ELSE IF endpoint = "/api/auth/validate-session"
  THEN [method |-> "POST",
        headers |-> Spread(JsonHeader, headers),
        body |-> [sessionToken |-> SessionToken(payload)]]
  ELSE [method |-> "POST",
        headers |-> Spread(JsonHeader, headers),
        body |-> payload]

\* The fetch makeApiRequest issues: url and options.
makeApiRequest(endpoint, payload, cfg) ==
  [url |-> Url(cfg.baseUrl, endpoint), kind |-> "plugin", endpoint |-> endpoint]
    @@ ApiRequestOptions(endpoint, payload, cfg.headers)

\* processPluginRequest: the legacy request it hands to makeApiRequest.
PluginToLegacy(request) ==
  [method |-> request.method, userId |-> request.userId,
   communityId |-> request.communityId] @@ OptionalFields(request)

\* request.url.startsWith('http')
StartsWithHttp(url) ==
  url \in {"https://other.example/x", "http", "https://api.example.com"}

\* The fetch makeDirectHttpRequest issues.
makeDirectHttpRequest(request, cfg) ==
  LET method == IF TruthyStr(request, "method") THEN request.method ELSE "GET"
      hdrs == IF "headers" \in DOMAIN request THEN request.headers ELSE EmptyMap
      base == [url |-> IF StartsWithHttp(request.url) THEN Url("", request.url)
                       ELSE Url(cfg.baseUrl, request.url),
               kind |-> "direct", endpoint |-> "",
               method |-> method,
               headers |-> Spread(Spread(JsonHeader, cfg.headers), hdrs)]
  IN  IF "body" \in DOMAIN request /\ method # "GET"
      THEN base @@ [body |-> request.body]
      ELSE base

\* processProxyRequest up to its first network call: the fetch it issues, or
\* the error it throws before issuing any.
processProxyRequest(request, cfg) ==
  IF ~validateProxyRequest(request)
  THEN [ok |-> FALSE,
        error |-> createProxyError("INVALID_REQUEST", "Invalid proxy request format")]
  ELSE IF request.type = "plugin"
  THEN LET e == getEndpointForPluginMethod(request.method)
       IN  IF ~e.ok THEN [ok |-> FALSE, error |-> e.error]
           ELSE [ok |-> TRUE,
                 fetch |-> makeApiRequest(e.value, PluginToLegacy(request), cfg)]
  ELSE IF request.type = "direct"
  THEN [ok |-> TRUE, fetch |-> makeDirectHttpRequest(request, cfg)]
  ELSE [ok |-> FALSE,
        error |-> createProxyError("INVALID_REQUEST", "Unknown request type")]


(***************************************************************************)
(* Responder: the network executor and the shaping of its result.           *)
(***************************************************************************)
\* What a fetch can come to: a 2xx JSON object, a non-2xx status, a 2xx body
\* that is no JSON, a 2xx JSON value that is no object, a rejected fetch
\* (transport failure or abort by the timeout).
NetOutcomes == {"ok", "http_error", "bad_json", "not_object", "rejected"}

\* The JSON object the backend returns for a call it serves.
BackendBody(fetch) == [success |-> TRUE, data |-> [served |-> fetch]]
\* A JSON value that is not an object.
Primitive == [primitive |-> TRUE]

RawEndpoints == {"/api/communities", "/api/auth/validate-session"}

Ok(value) == [ok |-> TRUE, value |-> value]
Thrown(type, message) == [ok |-> FALSE, error |-> [type |-> type, message |-> message]]

\* processResponse / processRawApiResponse / processDirectHttpResponse with
\* the wrapping of their callers: the ApiResponse returned, or the throw.
ShapeResult(fetch, outcome) ==
  IF outcome = "rejected" THEN Thrown("TypeError", "Failed to fetch")
  ELSE IF outcome = "http_error" THEN Thrown("NETWORK_ERROR", "HTTP 500")
  ELSE IF fetch.kind = "direct"
  THEN IF outcome = "bad_json" THEN Thrown("SyntaxError", "Unexpected token")
       ELSE IF outcome = "not_object" THEN Ok([success |-> TRUE, data |-> Primitive])
       ELSE Ok([success |-> TRUE, data |-> BackendBody(fetch)])
  ELSE IF outcome = "bad_json"
  THEN Thrown("INVALID_RESPONSE", "Invalid JSON response from API")
  ELSE IF outcome = "not_object"
  THEN Thrown("INVALID_RESPONSE", "Invalid response format from API")
  ELSE IF fetch.endpoint \in RawEndpoints
  THEN Ok([success |-> TRUE, data |-> BackendBody(fetch)])
  ELSE Ok(BackendBody(fetch))

(***************************************************************************)
(* Responder: replies.                                                      *)
(***************************************************************************)
ServerOrigin == <<"s", ".", "e">>

\* sendSuccessResponse(source, requestId, response): the message posted
sendSuccessResponse(requestId, response) == createProxyResponse(requestId, response)

\* sendErrorResponse(source, requestId, error): the message posted
sendErrorResponse(requestId, error) ==
  createProxyResponse(requestId, [success |-> FALSE, error |-> error.message])

\* source.postMessage(message, '*'): only the Requestor's window is modelled
\* as a receiver; what other senders get back is kept with the job.
PostToSource(source, message) ==
  IF source = "client"
  THEN toClient (+) SetToBag({MessageEvent(message, ServerOrigin, ResponderFrame)})
  ELSE toClient

\* A message posted by the Responder, with the window it was posted to and
\* whether the Responder's listener was attached when it was posted.
Posted(to, message) ==
  [to |-> to, data |-> message, listening |-> serverListener]

\* A request the Responder accepted: the inbound event, the fetch it issued
\* (if any), whether that fetch is outstanding, and the messages it posted.
Job(ev, fetches, state, posts) ==
  [data |-> ev.data, source |-> ev.source, origin |-> ev.origin,
   fetches |-> fetches, state |-> state, posts |-> posts]

\* The request an accepted envelope carries, after format detection.
RequestOf(message) ==
  IF isUsingEnhancedFormat(message) THEN message.request
  ELSE convertLegacyRequest(message.payload)

\* Date.now() while the Responder's window dispatches an event: the clock
\* advances with every event dispatched.
Now == BagCardinality(dispatched) + 1

\* A handleAnyProxyRequest that sends a legacy request to the path named by
\* the envelope's `endpoint` field.
handleAnyProxyRequest_UsesEndpoint(ev) ==
  LET message == ev.data
      q == processProxyRequest(RequestOf(message), serverConfig)
      p == IF q.ok /\ ~isUsingEnhancedFormat(message)
           THEN [ok |-> TRUE,
                 fetch |-> makeApiRequest(message.endpoint,
                                          PluginToLegacy(RequestOf(message)), serverConfig)]
           ELSE q
  IN  /\ requestCount' = requestCount + 1
      /\ lastRequestTime' = Now
      /\ IF p.ok
         THEN /\ jobs' = jobs (+) SetToBag({Job(ev, <<p.fetch>>, "fetching", << >>)})
              /\ UNCHANGED <<errorCount, toClient>>
         ELSE LET reply == sendErrorResponse(message.requestId, p.error)
              IN  /\ errorCount' = errorCount + 1
                  /\ jobs' = jobs (+) SetToBag({Job(ev, << >>, "done", <<Posted(ev.source, reply)>>)})
                  /\ toClient' = PostToSource(ev.source, reply)

\* handleAnyProxyRequest(message, source) up to its first await that leaves
\* the handler: either a fetch is outstanding, or the catch block has run.
handleAnyProxyRequest(ev) ==
  LET message == ev.data
      p == processProxyRequest(RequestOf(message), serverConfig)
  IN  /\ requestCount' = requestCount + 1
      /\ lastRequestTime' = Now
      /\ IF p.ok
         THEN /\ jobs' = jobs (+) SetToBag({Job(ev, <<p.fetch>>, "fetching", << >>)})
              /\ UNCHANGED <<errorCount, toClient>>
         ELSE LET reply == sendErrorResponse(message.requestId, p.error)
              IN  /\ errorCount' = errorCount + 1
                  /\ jobs' = jobs (+) SetToBag({Job(ev, << >>, "done", <<Posted(ev.source, reply)>>)})
                  /\ toClient' = PostToSource(ev.source, reply)

\* A listener that does not look at the origin of the event.
ServerListener_NoOriginCheck(ev) ==
  IF ~IsObject(ev.data)
  THEN UNCHANGED <<requestCount, lastRequestTime, errorCount, jobs, toClient>>
  ELSE IF isAnyProxyRequest(ev.data)
  THEN handleAnyProxyRequest(ev)
  ELSE UNCHANGED <<requestCount, lastRequestTime, errorCount, jobs, toClient>>

\* A listener that treats an empty whitelist as a whitelist naming nobody.
ServerListener_EmptyMeansNobody(ev) ==
  IF ~(\E i \in 1..Len(serverConfig.allowedOrigins) :
         serverConfig.allowedOrigins[i] = ev.origin)
  THEN UNCHANGED <<requestCount, lastRequestTime, errorCount, jobs, toClient>>
  ELSE IF ~IsObject(ev.data)
  THEN UNCHANGED <<requestCount, lastRequestTime, errorCount, jobs, toClient>>
  ELSE IF isAnyProxyRequest(ev.data)
  THEN handleAnyProxyRequest(ev)
  ELSE UNCHANGED <<requestCount, lastRequestTime, errorCount, jobs, toClient>>

\* The listener installed by setupMessageListener, run on a message event.
ServerListener(ev) ==
  IF Len(serverConfig.allowedOrigins) > 0
       /\ ~isOriginAllowed(ev.origin, serverConfig.allowedOrigins)
  THEN UNCHANGED <<requestCount, lastRequestTime, errorCount, jobs, toClient>>
  ELSE IF ~IsObject(ev.data)
  THEN UNCHANGED <<requestCount, lastRequestTime, errorCount, jobs, toClient>>
  ELSE IF isAnyProxyRequest(ev.data)
  THEN handleAnyProxyRequest(ev)
  ELSE UNCHANGED <<requestCount, lastRequestTime, errorCount, jobs, toClient>>

\* The Responder's window dispatches a queued message event.
ServerReceive(ev) ==
  /\ BagIn(ev, toServer)
  /\ toServer' = toServer (-) SetToBag({ev})
  /\ dispatched' = dispatched (+) SetToBag({ev})
  /\ IF serverListener
     THEN ServerListener(ev)
     ELSE UNCHANGED <<requestCount, lastRequestTime, errorCount, jobs, toClient>>
  /\ UNCHANGED <<serverConfig, construction, toParent, serverListener, serverInitialized>>
  /\ UNCHANGED <<clientVars, appVars>>

\* A handler that issues the fetch once more when it comes back with an
\* HTTP error status.
FetchReturn_RetriesOnce(j, outcome) ==
  /\ BagIn(j, jobs)
  /\ j.state = "fetching"
  /\ LET r == ShapeResult(j.fetches[1], outcome)
         reply == IF r.ok THEN sendSuccessResponse(j.data.requestId, r.value)
                  ELSE sendErrorResponse(j.data.requestId, r.error)
         done == [j EXCEPT !.state = "done", !.posts = Append(@, Posted(j.source, reply))]
         again == [j EXCEPT !.fetches = Append(@, j.fetches[1])]
     IN  IF outcome = "http_error" /\ Len(j.fetches) = 1
         THEN /\ jobs' = (jobs (-) SetToBag({j})) (+) SetToBag({again})
              /\ UNCHANGED <<errorCount, toClient>>
         ELSE /\ jobs' = (jobs (-) SetToBag({j})) (+) SetToBag({done})
              /\ errorCount' = IF r.ok THEN errorCount ELSE errorCount + 1
              /\ toClient' = PostToSource(j.source, reply)
  /\ UNCHANGED <<serverConfig, construction, toParent, serverListener, serverInitialized, dispatched,
                 requestCount, lastRequestTime>>
  /\ UNCHANGED <<clientVars, appVars, toServer>>

\* The outstanding fetch of job j settles with `outcome`, and the rest of
\* handleAnyProxyRequest runs.
FetchReturn(j, outcome) ==
  /\ BagIn(j, jobs)
  /\ j.state = "fetching"
  /\ LET r == ShapeResult(j.fetches[1], outcome)
         reply == IF r.ok THEN sendSuccessResponse(j.data.requestId, r.value)
                  ELSE sendErrorResponse(j.data.requestId, r.error)
         done == [j EXCEPT !.state = "done", !.posts = Append(@, Posted(j.source, reply))]
     IN  /\ jobs' = (jobs (-) SetToBag({j})) (+) SetToBag({done})
         /\ errorCount' = IF r.ok THEN errorCount ELSE errorCount + 1
         /\ toClient' = PostToSource(j.source, reply)
  /\ UNCHANGED <<serverConfig, construction, toParent, serverListener, serverInitialized, dispatched,
                 requestCount, lastRequestTime>>
  /\ UNCHANGED <<clientVars, appVars, toServer>>

(***************************************************************************)
(* Responder: construction.                                                 *)
(***************************************************************************)
\* DEFAULT_SERVER_CONFIG.timeout
DefaultTimeout == 30000

\* the least timeout validateServerConfig lets pass
MinTimeout == 1000

\* validateServerConfig(config): the message of the Error it throws, or "ok"
validateServerConfig(cfg) ==
  IF ~TruthyStr(cfg, "baseUrl")
  THEN "baseUrl is required for proxy server configuration"
  ELSE IF ~StartsWithHttp(cfg.baseUrl)
  THEN "baseUrl must be a valid HTTP/HTTPS URL"
  ELSE IF "timeout" \in DOMAIN cfg /\ cfg.timeout # 0 /\ cfg.timeout < MinTimeout
  THEN "timeout must be at least 1000ms"
  ELSE "ok"

\* mergeServerConfig(config): { ...DEFAULT_SERVER_CONFIG, ...config }
mergeServerConfig(cfg) ==
  Spread([timeout |-> DefaultTimeout, debug |-> FALSE, headers |-> EmptyMap,
          allowedOrigins |-> << >>],
         cfg)

\* The message notifyParentReady posts.
ReadyNotification == [type |-> "curia-api-proxy-ready"]

\* What is kept of a constructor call: its arguments, whether the window
\* has a parent other than itself, and how the call ended.
Constructed(cfg, nested) == [config |-> cfg, nested |-> nested, result |-> "ok"]
ConstructorThrew(cfg, nested, message) ==
  [config |-> cfg, nested |-> nested, result |-> message]

\* No constructor call has been made.
NotConstructed == [result |-> "none"]

\* Before the constructor has assigned it, this.config is undefined.
Undefined == [undefined |-> TRUE]

\* A constructor that posts the ready notification and leaves the listener
\* to be attached later.
ServerConstruct_NotifiesUnattached(cfg, nested) ==
  /\ construction = NotConstructed
  /\ LET v == validateServerConfig(cfg)
     IN  IF v # "ok"
         THEN /\ construction' = ConstructorThrew(cfg, nested, v)
              /\ UNCHANGED <<serverConfig, serverListener, serverInitialized, toParent>>
         ELSE /\ construction' = Constructed(cfg, nested)
              /\ serverConfig' = mergeServerConfig(cfg)
              /\ serverInitialized' = TRUE
              /\ toParent' = IF nested THEN Append(toParent, ReadyNotification)
                             ELSE toParent
              /\ UNCHANGED serverListener
  /\ UNCHANGED <<dispatched, requestCount, lastRequestTime, errorCount, jobs>>
  /\ UNCHANGED <<clientVars, appVars, toServer, toClient>>

\* new ApiProxyServer(config), in a window that has a parent (nested) or is
\* its own parent: validateServerConfig, mergeServerConfig, initialize.
ServerConstruct(cfg, nested) ==
  /\ construction = NotConstructed
  /\ LET v == validateServerConfig(cfg)
     IN  IF v # "ok"
         THEN /\ construction' = ConstructorThrew(cfg, nested, v)
              /\ UNCHANGED <<serverConfig, serverListener, serverInitialized, toParent>>
         ELSE /\ construction' = Constructed(cfg, nested)
              /\ serverConfig' = mergeServerConfig(cfg)
              /\ serverListener' = TRUE
              /\ serverInitialized' = TRUE
              /\ toParent' = IF nested THEN Append(toParent, ReadyNotification)
                             ELSE toParent
  /\ UNCHANGED <<dispatched, requestCount, lastRequestTime, errorCount, jobs>>
  /\ UNCHANGED <<clientVars, appVars, toServer, toClient>>

\* A destroy() that marks the Responder destroyed but leaves its listener
\* attached to the window.
ServerDestroy_KeepsListener ==
  /\ serverInitialized' = FALSE
  /\ UNCHANGED <<serverListener, serverConfig, construction, toParent, dispatched, requestCount, lastRequestTime, errorCount, jobs>>
  /\ UNCHANGED <<clientVars, appVars, toServer, toClient>>

\* A destroy() that also abandons the requests whose network call is
\* outstanding.
ServerDestroy_CancelsOutstanding ==
  /\ serverListener' = FALSE
  /\ serverInitialized' = FALSE
  /\ jobs' = [j \in {x \in BagToSet(jobs) : x.state = "done"} |-> CopiesIn(j, jobs)]
  /\ UNCHANGED <<serverConfig, construction, toParent, dispatched, requestCount,
                 lastRequestTime, errorCount>>
  /\ UNCHANGED <<clientVars, appVars, toServer, toClient>>

\* ApiProxyServer.destroy()
ServerDestroy ==
  /\ serverListener' = FALSE
  /\ serverInitialized' = FALSE
  /\ UNCHANGED <<serverConfig, construction, toParent, dispatched, requestCount, lastRequestTime, errorCount, jobs>>
  /\ UNCHANGED <<clientVars, appVars, toServer, toClient>>

\* The parent window, having received the ready notification, posts `data`
\* to the Responder's window.
ParentRequest(data) ==
  /\ toParent # << >>
  /\ BagCardinality(toServer) + BagCardinality(dispatched) < MaxForeign
  /\ toServer' = toServer (+) SetToBag({MessageEvent(data, ClientOrigin, "parent")})
  /\ UNCHANGED <<clientVars, appVars, toClient, serverVars>>

\* Another page posts `data` to the Responder's window from `origin`.
ForeignPost(data, origin) ==
  /\ BagCardinality(toServer) + BagCardinality(dispatched) < MaxForeign
  /\ toServer' = toServer (+) SetToBag({MessageEvent(data, origin, "foreign")})
  /\ UNCHANGED <<clientVars, appVars, toClient, serverVars>>


(***************************************************************************)
(* Initial states: both components constructed, no target handle set.       *)
(***************************************************************************)
BaseUrl == "https://api.example.com"

\* DEFAULT_CLIENT_CONFIG.retryDelay
DefaultRetryDelay == 1000

\* mergeClientConfig: the configurations the Requestor is constructed with.
ClientConfigsWith(retries, debugs) ==
  [maxRetries : retries, retryDelay : {DefaultRetryDelay}, debug : debugs]

\* DEFAULT_CLIENT_CONFIG.debug is false
ClientConfigs(retries) == ClientConfigsWith(retries, {FALSE})

\* The rolling window after n calls that were each resolved, in the order
\* they were made (samples are named by the request they measured).
WindowAfter(n) ==
  LET kept == IF n > ResponseWindow THEN ResponseWindow ELSE n
  IN  [i \in 1..kept |-> n - kept + i]

\* The Requestor after construction and `served` calls, all resolved.
ClientInitAfter(configs, served) ==
  /\ config \in configs
  /\ waits = [c \in CallIds |-> << >>]
  /\ isInitialized = TRUE
  /\ messageListener = TRUE
  /\ activeIframe = "null"
  /\ pendingRequests = EmptyMap
  /\ requestTimeouts = EmptyMap
  /\ timers = {}
  /\ retryTimers = {}
  /\ totalRequests \in served
  /\ totalErrors = 0
  /\ responseTimes = WindowAfter(totalRequests)
  /\ calls = 0
  /\ settle = [c \in CallIds |-> << >>]
  /\ sent = [c \in CallIds |-> << >>]
  /\ toServer = EmptyBag
  /\ toClient = EmptyBag

ClientInitWith(configs) == ClientInitAfter(configs, {0})

ClientInit == ClientInitWith(ClientConfigs(0..MaxRetriesCfg))

\* The Responder after construction with one of the given whitelists and
\* one of the given sets of default headers.
ServerInitOf(whitelists, headers, debugs) ==
  /\ serverConfig \in [baseUrl : {BaseUrl}, allowedOrigins : whitelists,
                       headers : headers, timeout : {DefaultTimeout},
                       debug : debugs]
  /\ construction = Constructed([baseUrl |-> BaseUrl], TRUE)
  /\ toParent = <<ReadyNotification>>
  /\ serverListener = TRUE
  /\ serverInitialized = TRUE
  /\ dispatched = EmptyBag
  /\ requestCount = 0
  /\ lastRequestTime = 0
  /\ errorCount = 0
  /\ jobs = EmptyBag

\* DEFAULT_SERVER_CONFIG.debug is false
ServerInitWith(whitelists, headers) == ServerInitOf(whitelists, headers, {FALSE})

ServerInit(whitelists) == ServerInitWith(whitelists, {EmptyMap})

(***************************************************************************)
(* Spec: the Requestor and the Responder joined by the channel.  The        *)
(* application sets the frame hosting the Responder as target and makes     *)
(* valid calls of the three kinds; timeouts, retries, deliveries and the    *)
(* network executor interleave freely.                                      *)
(***************************************************************************)
ValidInputs ==
  { [api |-> "makeApiRequest",
     request |-> [method |-> "getUserInfo", userId |-> "u1", communityId |-> "c1"]],
    [api |-> "makePluginRequest", method |-> "getUserCommunities",
     userId |-> "u2", communityId |-> "c1"],
    [api |-> "makeDirectRequest", url |-> "/api/x", options |-> EmptyMap] }

Init == ClientInit /\ ServerInit({<< >>})

Next ==
  \/ \E inp \in ValidInputs : Call(inp)
  \/ SetActiveIframe(ResponderFrame)
  \/ \E h \in timers : Timeout(h)
  \/ \E t \in retryTimers : RetryFire(t)
  \/ \E ev \in BagToSet(toClient) : ClientReceive(ev)
  \/ \E ev \in BagToSet(toServer) : ServerReceive(ev)
  \/ \E j \in BagToSet(jobs) : \E outcome \in {"ok", "http_error"} : FetchReturn(j, outcome)

Spec == Init /\ [][Next]_vars

(***************************************************************************)
(* SpecRequestor: the Requestor alone.  Whatever shares the channel may     *)
(* post any response or error envelope at any time; the application sets,   *)
(* reassigns and clears the target, makes valid and invalid calls, and      *)
(* tears the Requestor down.                                                *)
(***************************************************************************)
RequestorInputs ==
  ValidInputs \cup
  { [api |-> "makeApiRequest",
     request |-> [method |-> "getUserInfo", userId |-> "", communityId |-> "c1"]] }

\* Envelopes other contexts may post to the Requestor's window.
ErrorEnvelopes ==
  { [type |-> PROXY_ERROR, requestId |-> id, error |-> "boom"] : id \in CallIds }

ResponseEnvelopes ==
  { createProxyResponse(id, [success |-> TRUE, data |-> [from |-> "env"]]) : id \in CallIds }

NextRequestor ==
  \/ \E inp \in RequestorInputs : Call(inp)
  \/ \E iframe \in Iframes : SetActiveIframe(iframe)
  \/ ClearActiveIframe
  \/ \E h \in timers : Timeout(h)
  \/ \E t \in retryTimers : RetryFire(t)
  \/ \E data \in ErrorEnvelopes \cup ResponseEnvelopes : ClientReceiveForeign(data)
  \/ ClientDestroy

SpecRequestor == Init /\ [][NextRequestor]_vars


\* The Requestor under the scheduling the host guarantees: a timeout or retry
\* callback that stays scheduled is eventually run.
TimerFairness ==
  /\ \A id \in CallIds : \A n \in 0..MaxRetriesCfg :
       WF_vars(Timeout(TimeoutHandle(id, n)))
  /\ \A id \in CallIds :
       WF_vars(\E t \in retryTimers : t.pendingRequest.requestId = id /\ RetryFire(t))

SpecRequestorFair == SpecRequestor /\ TimerFairness

(***************************************************************************)
(* SpecTimeouts: the Requestor with a live target set and never cleared,    *)
(* and a channel on which no reply is ever delivered.                       *)
(***************************************************************************)
LiveIframes == {iframe \in Iframes : HasContentWindow(iframe)}

NextTimeouts ==
  \/ \E inp \in ValidInputs : Call(inp)
  \/ \E iframe \in LiveIframes : SetActiveIframe(iframe)
  \/ \E h \in timers : Timeout(h)
  \/ \E t \in retryTimers : RetryFire(t)

SpecTimeouts == Init /\ [][NextTimeouts]_vars

(***************************************************************************)
(* SpecResponder: the Responder alone, configured with one of several       *)
(* whitelists; other pages post request envelopes of both formats (valid,   *)
(* with unknown methods) and unrelated messages from several origins.       *)
(***************************************************************************)
Origins == { ClientOrigin, <<"b", ".", "f">>, <<"b", "x", "e">> }

Whitelists == { << >>, <<ClientOrigin>>, << <<"*", ".", "e">> >> }

\* Structured calls, as the payload of a legacy envelope.
LegacyPayloads ==
  { [method |-> m, userId |-> "u1", communityId |-> "c1"] :
      m \in {"getUserInfo", "doesNotExist", "constructor"} }

ForeignMessages ==
  { createProxyRequest(1, "/api/user", payload) : payload \in LegacyPayloads }
  \cup { createEnhancedProxyRequest(1, convertLegacyRequest(payload)) :
           payload \in LegacyPayloads }
  \cup { createEnhancedProxyRequest(1, [type |-> "direct", url |-> "/api/x"]),
         [type |-> "unrelated"] }

InitResponder == ClientInit /\ ServerInit(Whitelists)

NextResponder ==
  \/ \E data \in ForeignMessages : \E origin \in Origins : ForeignPost(data, origin)
  \/ \E ev \in BagToSet(toServer) : ServerReceive(ev)
  \/ \E j \in BagToSet(jobs) : \E outcome \in NetOutcomes : FetchReturn(j, outcome)

SpecResponder == InitResponder /\ [][NextResponder]_vars

(***************************************************************************)
(* SpecFormats: the Responder, trusting every origin, receives valid        *)
(* structured calls in both envelope formats.                               *)
(***************************************************************************)
\* Valid structured calls: one method per kind of outbound request, with and
\* without params and signature.
StructuredCalls ==
  { [method |-> m, userId |-> "u1", communityId |-> "c1"] @@ params @@ signature :
      m \in {"getUserInfo", "getUserCommunities", "getUserProfile"},
      params \in {EmptyMap, [params |-> [sessionToken |-> "t1"]]},
      signature \in {EmptyMap, [signature |-> "sig"]} }

\* The enhanced request that carries structured call `call`.
PluginRequest(call) == [type |-> "plugin"] @@ call

FormatMessages ==
  { createProxyRequest(1, getEndpointForMethod(call.method).value.value, call) :
      call \in StructuredCalls }
  \cup { createEnhancedProxyRequest(1, PluginRequest(call)) : call \in StructuredCalls }

NextFormats ==
  \/ \E data \in FormatMessages : ForeignPost(data, ClientOrigin)
  \/ \E ev \in BagToSet(toServer) : ServerReceive(ev)
  \/ \E j \in BagToSet(jobs) : \E outcome \in {"ok", "http_error"} : FetchReturn(j, outcome)

SpecFormats == Init /\ [][NextFormats]_vars

(***************************************************************************)
(* SpecValidation: the Requestor with a live target, called with valid and  *)
(* with invalid arguments; no reply is delivered.                           *)
(***************************************************************************)
InvalidInputs ==
  { [api |-> "makeApiRequest",
     request |-> [method |-> m, userId |-> "u1", communityId |-> "c1"]] :
      m \in {"doesNotExist", "constructor"} }
  \cup
  { [api |-> "makeApiRequest",
     request |-> [method |-> "getUserInfo", userId |-> "", communityId |-> "c1"]],
    [api |-> "makePluginRequest", method |-> "getUserInfo",
     userId |-> "u1", communityId |-> ""],
    [api |-> "makePluginRequest", method |-> "toString",
     userId |-> "u1", communityId |-> "c1"],
    [api |-> "makeDirectRequest", url |-> "", options |-> EmptyMap] }

NextValidation ==
  \/ \E inp \in ValidInputs \cup InvalidInputs : Call(inp)
  \/ \E iframe \in LiveIframes : SetActiveIframe(iframe)
  \/ \E h \in timers : Timeout(h)
  \/ \E t \in retryTimers : RetryFire(t)

SpecValidation == Init /\ [][NextValidation]_vars

(***************************************************************************)
(* SpecCrossTalk: Spec, with a second Requestor instance in the same window *)
(* (its listener is attached to the same channel).  The sibling issues one  *)
(* call of its own, whose reply is dispatched to both listeners, and error  *)
(* envelopes are posted to the window.                                      *)
(***************************************************************************)
\* A correlation id generated by the sibling instance: generateRequestId
\* makes it differ from every id of this instance.
SiblingRequestId == MaxCalls + 1

SiblingRequest ==
  createEnhancedProxyRequest(SiblingRequestId,
    [type |-> "plugin", method |-> "getUserInfo", userId |-> "u3", communityId |-> "c1"])

\* The sibling instance sends its request to the Responder.
SiblingCall ==
  LET ev == MessageEvent(SiblingRequest, ClientOrigin, "client")
  IN  /\ ~BagIn(ev, toServer) /\ ~BagIn(ev, dispatched)
      /\ toServer' = toServer (+) SetToBag({ev})
      /\ UNCHANGED <<clientVars, appVars, toClient, serverVars>>

StrayEnvelopes ==
  { [type |-> PROXY_ERROR, requestId |-> id, error |-> "boom"] :
      id \in CallIds \cup {SiblingRequestId} }

NextCrossTalk ==
  \/ \E inp \in ValidInputs : Call(inp)
  \/ SetActiveIframe(ResponderFrame)
  \/ \E h \in timers : Timeout(h)
  \/ \E t \in retryTimers : RetryFire(t)
  \/ \E ev \in BagToSet(toClient) : ClientReceive(ev)
  \/ \E ev \in BagToSet(toServer) : ServerReceive(ev)
  \/ \E j \in BagToSet(jobs) : FetchReturn(j, "ok")
  \/ SiblingCall
  \/ \E data \in StrayEnvelopes : ClientReceiveForeign(data)

SpecCrossTalk == Init /\ [][NextCrossTalk]_vars

(***************************************************************************)
(* SpecOpenResponder: the Responder configured without a whitelist (the     *)
(* merged configuration then holds the empty list), receiving messages      *)
(* from several origins, among them the opaque origin "null"; destroy() may *)
(* be called at any moment, and again.                                      *)
(***************************************************************************)
OpaqueOrigin == <<"n">>

AnyOrigins == Origins \cup {OpaqueOrigin}

NextOpenResponder ==
  \/ \E data \in ForeignMessages : \E origin \in AnyOrigins : ForeignPost(data, origin)
  \/ \E ev \in BagToSet(toServer) : ServerReceive(ev)
  \/ \E j \in BagToSet(jobs) : \E outcome \in {"ok", "http_error"} : FetchReturn(j, outcome)
  \/ ServerDestroy

SpecOpenResponder == Init /\ [][NextOpenResponder]_vars

(***************************************************************************)
(* SpecBackoff: calls whose replies never come, under a configuration that  *)
(* allows one retry more than the other specifications, so that a call is   *)
(* retried at least twice and the delays of its retries can be compared.    *)
(***************************************************************************)
InitBackoff ==
  /\ ClientInitWith(ClientConfigs(0..(MaxRetriesCfg + 1)))
  /\ ServerInit({<< >>})

NextBackoff ==
  \/ \E inp \in ValidInputs : Call(inp)
  \/ \E iframe \in LiveIframes : SetActiveIframe(iframe)
  \/ \E h \in timers : Timeout(h)
  \/ \E t \in retryTimers : RetryFire(t)

SpecBackoff == InitBackoff /\ [][NextBackoff]_vars

(***************************************************************************)
(* SpecRetryFormat: calls whose replies never come, made through each of    *)
(* the three entry points; among the requests given to makeApiRequest is a  *)
(* PluginRequest object, which the ApiRequest parameter type admits.        *)
(***************************************************************************)
PluginObjectInputs ==
  { [api |-> "makeApiRequest",
     request |-> [type |-> "plugin", method |-> "getUserInfo",
                  userId |-> "u1", communityId |-> "c1"]] }

NextRetryFormat ==
  \/ \E inp \in ValidInputs \cup PluginObjectInputs : Call(inp)
  \/ \E iframe \in LiveIframes : SetActiveIframe(iframe)
  \/ \E h \in timers : Timeout(h)
  \/ \E t \in retryTimers : RetryFire(t)

SpecRetryFormat == Init /\ [][NextRetryFormat]_vars

(***************************************************************************)
(* SpecWindow: the Requestor after a run of earlier calls that were all     *)
(* resolved, so that its latency window is empty, one short of full, or     *)
(* full; further calls are resolved, rejected or time out, and replies for  *)
(* ids without a record arrive.                                             *)
(***************************************************************************)
EarlierCalls == {0, ResponseWindow - 1, ResponseWindow}

WindowIds == {n + c : n \in EarlierCalls, c \in CallIds}

WindowEnvelopes ==
  { createProxyResponse(id, [success |-> TRUE, data |-> [from |-> "env"]]) : id \in WindowIds }
  \cup { [type |-> PROXY_ERROR, requestId |-> id, error |-> "boom"] : id \in WindowIds }

InitWindow ==
  /\ ClientInitAfter(ClientConfigs(0..MaxRetriesCfg), EarlierCalls)
  /\ ServerInit({<< >>})

NextWindow ==
  \/ \E inp \in ValidInputs : Call(inp)
  \/ \E iframe \in LiveIframes : SetActiveIframe(iframe)
  \/ \E h \in timers : Timeout(h)
  \/ \E t \in retryTimers : RetryFire(t)
  \/ \E data \in WindowEnvelopes : ClientReceiveForeign(data)

SpecWindow == InitWindow /\ [][NextWindow]_vars

(***************************************************************************)
(* SpecHeaders: the Responder configured with default headers, some of      *)
(* which share their key with a header the call-specific logic sets,        *)
(* serving structured calls in both envelope formats.                       *)
(***************************************************************************)
ConfiguredHeaders ==
  { EmptyMap,
    ("X-Api-Key" :> "k1"),
    ("Content-Type" :> "text/plain"),
    ("Authorization" :> "Basic cfg") @@ ("X-Api-Key" :> "k1") }

InitHeaders == ClientInit /\ ServerInitWith({<< >>}, ConfiguredHeaders)

NextHeaders ==
  \/ \E data \in FormatMessages : ForeignPost(data, ClientOrigin)
  \/ \E ev \in BagToSet(toServer) : ServerReceive(ev)
  \/ \E j \in BagToSet(jobs) : \E outcome \in {"ok", "http_error"} : FetchReturn(j, outcome)

SpecHeaders == InitHeaders /\ [][NextHeaders]_vars

(***************************************************************************)
(* SpecVariants: the Responder, with no whitelist, receiving request        *)
(* envelopes whose `request` field is a structured call, a passthrough      *)
(* call, a call with an unknown variant tag, or null, with and without the  *)
(* legacy fields next to it.                                                *)
(***************************************************************************)
UserCall == [method |-> "getUserInfo", userId |-> "u1", communityId |-> "c1"]

CommunityCall == [method |-> "getCommunityInfo", userId |-> "u2", communityId |-> "c2"]

UnknownVariant == [type |-> "batch"] @@ UserCall

\* The legacy fields, carrying a call other than the one in `request`.
LegacyFields == [endpoint |-> "/api/community", payload |-> CommunityCall]

VariantMessages ==
  LET enhanced == { createEnhancedProxyRequest(1, request) :
                      request \in { PluginRequest(UserCall),
                                    [type |-> "direct", url |-> "/api/x"],
                                    UnknownVariant, Null } }
  IN  enhanced
        \cup { message @@ LegacyFields : message \in enhanced }
        \cup { createProxyRequest(1, "/api/community", CommunityCall) }

NextVariants ==
  \/ \E data \in VariantMessages : ForeignPost(data, ClientOrigin)
  \/ \E ev \in BagToSet(toServer) : ServerReceive(ev)
  \/ \E j \in BagToSet(jobs) : \E outcome \in {"ok", "http_error"} : FetchReturn(j, outcome)

SpecVariants == Init /\ [][NextVariants]_vars

(***************************************************************************)
(* SpecConstruct: the Responder from before its construction.  It is        *)
(* constructed once, in a nested or in a top-level window, with a           *)
(* configuration that may lack a usable base URL or name any timeout;       *)
(* other pages post requests at any time, the parent posts them once it     *)
(* has the ready notification, and the Responder may be destroyed.          *)
(***************************************************************************)
ConstructorTimeouts == {0, MinTimeout - 1, MinTimeout, DefaultTimeout}

ConstructorConfigs ==
  { base @@ timeout :
      base \in { EmptyMap, [baseUrl |-> ""], [baseUrl |-> "ftp://files.example"],
                 [baseUrl |-> BaseUrl] },
      timeout \in {EmptyMap} \cup { [timeout |-> ms] : ms \in ConstructorTimeouts } }

ConstructMessages ==
  { createProxyRequest(1, "/api/user", UserCall),
    createEnhancedProxyRequest(1, [type |-> "direct", url |-> "/api/x"]) }

InitConstruct ==
  /\ ClientInit
  /\ serverConfig = Undefined
  /\ construction = NotConstructed
  /\ toParent = << >>
  /\ serverListener = FALSE
  /\ serverInitialized = FALSE
  /\ dispatched = EmptyBag
  /\ requestCount = 0
  /\ lastRequestTime = 0
  /\ errorCount = 0
  /\ jobs = EmptyBag

NextConstruct ==
  \/ \E cfg \in ConstructorConfigs : \E nested \in BOOLEAN : ServerConstruct(cfg, nested)
  \/ \E data \in ConstructMessages : ForeignPost(data, ClientOrigin)
  \/ \E data \in ConstructMessages : ParentRequest(data)
  \/ \E ev \in BagToSet(toServer) : ServerReceive(ev)
  \/ \E j \in BagToSet(jobs) : \E outcome \in {"ok", "http_error"} : FetchReturn(j, outcome)
  \/ construction.result = "ok" /\ ServerDestroy

SpecConstruct == InitConstruct /\ [][NextConstruct]_vars

(***************************************************************************)
(* The debug blocks.  Every `if (this.config.debug) { console.log(...) }`   *)
(* evaluates the values it logs; a property read on null or undefined       *)
(* throws a TypeError at that point of the handler.  The actions above are  *)
(* the handlers with the blocks skipped; the actions below run the blocks   *)
(* that stand before an effect of their handler or inside one of its try    *)
(* statements, when the configuration enables them.                         *)
(***************************************************************************)
TypeErrorOnRead ==
  [type |-> "TypeError", message |-> "Cannot read properties of undefined"]

\* Reading a property of one of the values throws.
DebugThrows(values) ==
  \E i \in 1..Len(values) : values[i] = Null \/ values[i] = Undefined

\* A block that also logs the session token of the request.
RequestSentLog_ReadsParams(request) ==
  <<request, IF "params" \in DOMAIN request THEN request.params ELSE Undefined>>

\* 'API request sent' / 'Enhanced API request sent': the values whose
\* properties the block reads.
RequestSentLog(request) == <<request>>

\* 'Retrying request': pendingRequest.requestId, lastError.message
RetryLog(pendingRequest, lastError) == <<pendingRequest, lastError>>

\* 'Received enhanced proxy request' / 'Received legacy proxy request'
RequestReceivedLog(message) ==
  IF isUsingEnhancedFormat(message) THEN <<message, message.request>>
  ELSE <<message, message.payload>>

\* 'Success response sent': response.success
ResponseSentLog(response) == <<response>>

\* makeApiRequest / makeEnhancedProxyRequest with their debug block, which
\* stands inside the try of the promise executor, after the send.
CallDebug(inp) ==
  LET c == calls + 1
      requestId == generateRequestId
      request == BuiltRequest(inp)
      s == SendFor(inp.api, requestId, request)
      reached == /\ isInitialized /\ activeIframe # "null" /\ InputValid(inp)
                 /\ s.ok
  IN  IF config.debug /\ reached /\ DebugThrows(RequestSentLog(request))
      THEN \* catch: cleanupRequest(requestId); reject(error)
           /\ calls < MaxCalls
           /\ calls' = c
           /\ totalRequests' = totalRequests + 1
           /\ pendingRequests' = cleanupPending(pendingRequests, requestId)
           /\ requestTimeouts' = cleanupTimeouts(requestTimeouts, requestId)
           /\ timers' = timers
           /\ settle' = Settled(c, "reject", TypeErrorOnRead)
           /\ toServer' = Delivered(s)
           /\ sent' = Logged(c, s)
           /\ UNCHANGED <<config, isInitialized, messageListener, activeIframe,
                          retryTimers, waits, totalErrors, responseTimes>>
           /\ UNCHANGED <<toClient, serverVars>>
      ELSE Call(inp)

\* handleRequestError with the debug block of retryRequest, which stands
\* before the setTimeout that schedules the retry.
handleRequestErrorDebug(requestId, error, live) ==
  IF /\ config.debug
     /\ requestId \in DOMAIN pendingRequests
     /\ pendingRequests[requestId].retryCount < config.maxRetries
     /\ DebugThrows(RetryLog(pendingRequests[requestId], error))
  THEN \* the throw leaves the callback: no retry is scheduled
       /\ totalErrors' = totalErrors + 1
       /\ pendingRequests' = cleanupPending(pendingRequests, requestId)
       /\ requestTimeouts' = cleanupTimeouts(requestTimeouts, requestId)
       /\ timers' = cleanupTimers(requestTimeouts, live, requestId)
       /\ UNCHANGED <<retryTimers, waits, settle>>
  ELSE handleRequestError(requestId, error, live)

TimeoutDebug(h) ==
  /\ h \in timers
  /\ handleRequestErrorDebug(h.requestId, TimeoutError, timers \ {h})
  /\ UNCHANGED <<config, isInitialized, messageListener, activeIframe,
                 totalRequests, responseTimes>>
  /\ UNCHANGED <<calls, sent, toServer, toClient, serverVars>>

\* handleAnyProxyRequest with its debug blocks, which stand inside its try.
handleAnyProxyRequestDebug(ev) ==
  IF serverConfig.debug /\ DebugThrows(RequestReceivedLog(ev.data))
  THEN LET reply == sendErrorResponse(ev.data.requestId, TypeErrorOnRead)
       IN  /\ requestCount' = requestCount + 1
           /\ lastRequestTime' = Now
      /\ lastRequestTime' = Now
           /\ errorCount' = errorCount + 1
           /\ jobs' = jobs (+) SetToBag({Job(ev, << >>, "done", <<Posted(ev.source, reply)>>)})
           /\ toClient' = PostToSource(ev.source, reply)
  ELSE handleAnyProxyRequest(ev)

ServerListenerDebug(ev) ==
  IF Len(serverConfig.allowedOrigins) > 0
       /\ ~isOriginAllowed(ev.origin, serverConfig.allowedOrigins)
  THEN UNCHANGED <<requestCount, lastRequestTime, errorCount, jobs, toClient>>
  ELSE IF ~IsObject(ev.data)
  THEN UNCHANGED <<requestCount, lastRequestTime, errorCount, jobs, toClient>>
  ELSE IF isAnyProxyRequest(ev.data)
  THEN handleAnyProxyRequestDebug(ev)
  ELSE UNCHANGED <<requestCount, lastRequestTime, errorCount, jobs, toClient>>

ServerReceiveDebug(ev) ==
  /\ BagIn(ev, toServer)
  /\ toServer' = toServer (-) SetToBag({ev})
  /\ dispatched' = dispatched (+) SetToBag({ev})
  /\ IF serverListener
     THEN ServerListenerDebug(ev)
     ELSE UNCHANGED <<requestCount, lastRequestTime, errorCount, jobs, toClient>>
  /\ UNCHANGED <<serverConfig, construction, toParent, serverListener, serverInitialized>>
  /\ UNCHANGED <<clientVars, appVars>>

\* The rest of handleAnyProxyRequest with the debug block of
\* sendSuccessResponse, which stands after the post and inside the try of
\* its caller.
FetchReturnDebug(j, outcome) ==
  LET r == ShapeResult(j.fetches[1], outcome)
  IN  IF /\ serverConfig.debug
         /\ BagIn(j, jobs) /\ j.state = "fetching"
         /\ r.ok
         /\ DebugThrows(ResponseSentLog(r.value))
      THEN LET success == sendSuccessResponse(j.data.requestId, r.value)
               failure == sendErrorResponse(j.data.requestId, TypeErrorOnRead)
               done == [j EXCEPT !.state = "done",
                                 !.posts = @ \o <<Posted(j.source, success),
                                                  Posted(j.source, failure)>>]
           IN  /\ jobs' = (jobs (-) SetToBag({j})) (+) SetToBag({done})
               /\ errorCount' = errorCount + 1
               /\ toClient' =
                    IF j.source = "client"
                    THEN toClient
                           (+) SetToBag({MessageEvent(success, ServerOrigin, ResponderFrame)})
                           (+) SetToBag({MessageEvent(failure, ServerOrigin, ResponderFrame)})
                    ELSE toClient
               /\ UNCHANGED <<serverConfig, construction, toParent, serverListener,
                              serverInitialized, dispatched, requestCount, lastRequestTime>>
               /\ UNCHANGED <<clientVars, appVars, toServer>>
      ELSE FetchReturn(j, outcome)

(***************************************************************************)
(* SpecDebug: the Requestor and the Responder joined by the channel, each   *)
(* constructed with debug enabled or disabled; the application and the      *)
(* network behave as in Spec, another page posts a legacy message with a    *)
(* null request, and the Requestor may be torn down.                        *)
(***************************************************************************)
\* A message of another page that carries the legacy fields and a null
\* `request`: isLegacyProxyRequest accepts it, and the block of the legacy
\* branch is the one that runs.
NullMessages ==
  { createEnhancedProxyRequest(1, Null) @@ LegacyFields }

\* The other page posts before anything else is on the channel.
FirstPost(data) ==
  /\ toServer = EmptyBag /\ dispatched = EmptyBag
  /\ ForeignPost(data, ClientOrigin)

\* The application's calls: direct requests, sent in the enhanced format.
DebugInputs ==
  { inp \in ValidInputs : inp.api = "makeDirectRequest" }

InitDebug ==
  /\ ClientInitAfter(ClientConfigsWith({1}, BOOLEAN), {0})
  /\ ServerInitOf({<< >>}, {EmptyMap}, BOOLEAN)

NextDebug ==
  \/ \E inp \in DebugInputs : CallDebug(inp)
  \/ SetActiveIframe(ResponderFrame)
  \/ \E h \in timers : TimeoutDebug(h)
  \/ \E t \in retryTimers : RetryFire(t)
  \/ \E ev \in BagToSet(toClient) : ClientReceive(ev)
  \/ \E ev \in BagToSet(toServer) : ServerReceiveDebug(ev)
  \/ \E j \in BagToSet(jobs) : \E outcome \in {"ok", "http_error"} : FetchReturnDebug(j, outcome)
  \/ \E data \in NullMessages : FirstPost(data)
  \/ ClientDestroy

SpecDebug == InitDebug /\ [][NextDebug]_vars

(***************************************************************************)
(* SpecEndpoints: the Responder, trusting every origin, receives legacy     *)
(* envelopes whose `endpoint` field is the path of the payload's method,    *)
(* the path of another method, a path outside the table or an absolute URL. *)
(***************************************************************************)
EnvelopeEndpoints ==
  {"/api/user", "/api/community", "/api/admin", "https://other.example/x"}

EndpointMessages ==
  { createProxyRequest(1, endpoint, payload) :
      endpoint \in EnvelopeEndpoints, payload \in {UserCall, CommunityCall} }

NextEndpoints ==
  \/ \E data \in EndpointMessages : ForeignPost(data, ClientOrigin)
  \/ \E ev \in BagToSet(toServer) : ServerReceive(ev)
  \/ \E j \in BagToSet(jobs) : \E outcome \in {"ok", "http_error"} : FetchReturn(j, outcome)

SpecEndpoints == Init /\ [][NextEndpoints]_vars

(***************************************************************************)
(* Vocabulary of the properties.                                            *)
(***************************************************************************)
\* The continuations of call c invoked so far, by kind.
Resolutions(c) == {i \in 1..Len(settle[c]) : settle[c][i].kind = "resolve"}
Rejections(c) == {i \in 1..Len(settle[c]) : settle[c][i].kind = "reject"}
\* Call c passed the initial checks: a correlation id was generated for it.
Entered(c) == c <= calls /\ (settle[c] = << >> \/ settle[c][1].kind # "throw")
Resolved(c) == Resolutions(c) # {}
Rejected(c) == Rejections(c) # {}

RECURSIVE SumOver(_, _)
\* the sum of f[x] over the finite set S
SumOver(f, S) ==
  IF S = {} THEN 0
  ELSE LET x == CHOOSE y \in S : TRUE IN f[x] + SumOver(f, S \ {x})

\* Number of messages the Responder has posted for correlation id `id`.
RepliesFor(id) ==
  LET js == {j \in BagToSet(jobs) : j.data.requestId = id}
  IN  SumOver([j \in js |-> CopiesIn(j, jobs) * Len(j.posts)], js)

(***************************************************************************)
(* C1.  Correlation integrity: whatever the order in which the Responder's  *)
(* replies are delivered, a call that resolves is resolved with a response  *)
(* the Responder produced for a request message of that very call.          *)
(***************************************************************************)
C1_CorrelationIntegrity ==
  \A c \in CallIds : \A i \in Resolutions(c) :
    \E j \in BagToSet(jobs) :
      /\ \E k \in 1..Len(sent[c]) : sent[c][k].data = j.data
      /\ \E n \in 1..Len(j.posts) : j.posts[n].data.response = settle[c][i].value

\* Two calls with different payloads were in flight together, the later one
\* was answered first, and both resolved with a backend result.
C1_Witness ==
  /\ responseTimes = <<2, 1>>
  /\ Len(sent[1]) > 0 /\ Len(sent[2]) > 0
  /\ RequestOf(sent[1][1].data) # RequestOf(sent[2][1].data)
  /\ \A c \in {1, 2} : Resolved(c) /\ settle[c][1].value.success

(***************************************************************************)
(* C2.  The continuations of a call are invoked at most once in total: a    *)
(* call is never both resolved and rejected and never settled twice.        *)
(***************************************************************************)
C2_SettledAtMostOnce == \A c \in CallIds : Len(settle[c]) <= 1

\* One call was rejected by teardown and another had resolved after a retry.
C2_Witness ==
  /\ ~isInitialized
  /\ \E c \in CallIds : settle[c] = <<[kind |-> "reject", value |-> DestroyedError]>>
  /\ \E c \in CallIds : Resolved(c) /\ Len(sent[c]) >= 2

(***************************************************************************)
(* C5.  Exactly one terminal reply per correlation id: the Responder never  *)
(* posts a second response for a correlation id, also when the Requestor    *)
(* re-sends the id as a retry.                                              *)
(***************************************************************************)
C5_OneReplyPerCorrelationId == \A id \in CallIds : RepliesFor(id) <= 1

(***************************************************************************)
(* C7.  Teardown drains state: once destroy() has run, every call that was  *)
(* issued is settled, the unsettled ones with the destroyed error, and no   *)
(* timer of the Requestor is left to fire.                                  *)
(***************************************************************************)
C7_TeardownDrains ==
  ~isInitialized =>
    /\ \A c \in CallIds : Entered(c) => Len(settle[c]) >= 1
    /\ timers = {}
    /\ retryTimers = {}

(***************************************************************************)
(* C8.  Status accounting: when N calls have resolved and M calls have been *)
(* rejected and none is outstanding, totalRequestCount is N + M, errorCount *)
(* is M, and the latency window holds samples of resolved calls only.       *)
(***************************************************************************)
C8_StatusAccounting ==
  LET N == Cardinality({c \in CallIds : Resolved(c)})
      M == Cardinality({c \in CallIds : Rejected(c)})
  IN  (pendingRequests = EmptyMap /\ retryTimers = {}) =>
        /\ totalRequests = N + M
        /\ totalErrors = M
        /\ Len(responseTimes) = N


(***************************************************************************)
(* C3.  Every call that passed the initial checks is eventually settled,    *)
(* given that scheduled timeout and retry callbacks eventually run: also    *)
(* when no reply arrives, when the target is cleared and when destroy()     *)
(* runs while the call is armed or waits for its retry.                     *)
(***************************************************************************)
C3_EventuallySettled ==
  \A c \in CallIds : (Entered(c) /\ settle[c] = << >>) ~> (settle[c] # << >>)

\* A call was settled with its recorded timeout error before its retries
\* were used up: its retry found the target cleared (or the Requestor torn
\* down) while it waited.
C3_Witness ==
  \E c \in CallIds :
    /\ settle[c] = <<[kind |-> "reject", value |-> TimeoutError]>>
    /\ Len(sent[c]) < config.maxRetries + 1
    /\ ~isInitialized

(***************************************************************************)
(* C4.  Retry bound: with the target set throughout and no reply ever       *)
(* delivered, a call is transmitted at most maxRetries + 1 times, every     *)
(* transmission carries the same correlation id, and the call is rejected   *)
(* (with the timeout error) only after exactly maxRetries + 1               *)
(* transmissions.                                                           *)
(***************************************************************************)
C4_RetryBound ==
  \A c \in CallIds :
    /\ Len(sent[c]) <= config.maxRetries + 1
    /\ \A k \in 1..Len(sent[c]) : sent[c][k].data.requestId = sent[c][1].data.requestId
    /\ Rejected(c) =>
         /\ settle[c] = <<[kind |-> "reject", value |-> TimeoutError]>>
         /\ Len(sent[c]) = config.maxRetries + 1

\* A call configured with at least one retry has been rejected.
C4_Witness ==
  /\ config.maxRetries >= 1
  /\ \E c \in CallIds : Rejected(c) /\ Len(sent[c]) = config.maxRetries + 1

\* Number of copies in bag B of the elements that satisfy Test.
CountIn(B, Test(_)) ==
  LET S == {x \in BagToSet(B) : Test(x)}
  IN  SumOver([x \in S |-> CopiesIn(x, B)], S)

\* The reply the Responder posted for job j is a failure envelope.
FailureReply(j) ==
  /\ Len(j.posts) = 1
  /\ isProxyApiResponse(j.posts[1].data)
  /\ ~j.posts[1].data.response.success

(***************************************************************************)
(* C6.  For every message the Responder accepted as a request envelope it   *)
(* issues at most one network call and posts at most one message; once the  *)
(* handler has finished it has posted exactly one, a response envelope with *)
(* the correlation id of the request, to the window that sent the request;  *)
(* while the network call is outstanding it has posted none.                *)
(***************************************************************************)
C6_OneReplyPerAcceptedMessage ==
  \A j \in BagToSet(jobs) :
    /\ Len(j.fetches) <= 1
    /\ Len(j.posts) <= 1
    /\ j.state = "fetching" => Len(j.fetches) = 1 /\ j.posts = << >>
    /\ j.state = "done" =>
         /\ Len(j.posts) = 1
         /\ j.posts[1].to = j.source
         /\ isProxyApiResponse(j.posts[1].data)
         /\ j.posts[1].data.requestId = j.data.requestId

\* One request was answered with a failure after its single network call
\* came back with an error status, another with a success.
C6_Witness ==
  /\ \E j \in BagToSet(jobs) :
       j.state = "done" /\ Len(j.fetches) = 1 /\ FailureReply(j)
  /\ \E j \in BagToSet(jobs) :
       j.state = "done" /\ Len(j.fetches) = 1 /\ j.posts[1].data.response.success

(***************************************************************************)
(* C9.  Origin enforcement: with a non-empty whitelist, the Responder acts  *)
(* (network call, reply) only on messages whose origin the whitelist        *)
(* admits, its request counter counts exactly the request envelopes from    *)
(* admitted origins that were dispatched, its error counter exactly the     *)
(* failures it answered, and every dispatched request envelope from an      *)
(* origin that equals a whitelist entry is processed, and answered when     *)
(* its processing has finished.                                             *)
(***************************************************************************)
C9_OriginEnforcement ==
  LET allowed == serverConfig.allowedOrigins
      Admitted(ev) == isOriginAllowed(ev.origin, allowed) /\ isAnyProxyRequest(ev.data)
      Listed(ev) == \E i \in 1..Len(allowed) : allowed[i] = ev.origin
  IN  Len(allowed) > 0 =>
        /\ \A j \in BagToSet(jobs) : isOriginAllowed(j.origin, allowed)
        /\ requestCount = CountIn(dispatched, Admitted)
        /\ BagCardinality(jobs) = requestCount
        /\ errorCount = CountIn(jobs, FailureReply)
        /\ \A ev \in BagToSet(dispatched) :
             (Listed(ev) /\ isAnyProxyRequest(ev.data)) =>
               \E j \in BagToSet(jobs) :
                 /\ j.data = ev.data /\ j.origin = ev.origin /\ j.source = ev.source
                 /\ j.state = "done" => Len(j.posts) = 1 /\ j.posts[1].to = ev.source

\* With a whitelist of one exact entry, a valid request from another origin
\* was dispatched and dropped, and a valid request from the listed origin
\* was served.
C9_Witness ==
  /\ serverConfig.allowedOrigins = <<ClientOrigin>>
  /\ \E ev \in BagToSet(dispatched) :
       /\ ev.origin # ClientOrigin
       /\ isAnyProxyRequest(ev.data)
       /\ validateProxyRequest(RequestOf(ev.data))
  /\ \E j \in BagToSet(jobs) :
       /\ j.origin = ClientOrigin
       /\ j.state = "done"
       /\ j.posts[1].data.response.success
  /\ requestCount = 1

(***************************************************************************)
(* C10.  Unknown method: a structured call whose method is not in the       *)
(* method-to-endpoint table, in the legacy or the enhanced envelope, is     *)
(* answered with a failure without any network call.                        *)
(***************************************************************************)
C10_UnknownMethodRejected ==
  \A j \in BagToSet(jobs) :
    LET request == RequestOf(j.data)
    IN  (request.type = "plugin" /\ request.method \notin DOMAIN methodToEndpoint) =>
          /\ j.fetches = << >>
          /\ j.state = "done"
          /\ FailureReply(j)

\* The structured call (method, caller, scope, params, signature) a request
\* envelope of either format carries.
StructuredCallOf(message) ==
  LET r == IF "request" \in DOMAIN message THEN message.request ELSE message.payload
  IN  [f \in (DOMAIN r) \cap {"method", "userId", "communityId", "params", "signature"} |->
         r[f]]

(***************************************************************************)
(* C11.  Legacy/enhanced equivalence: when the Responder has accepted a     *)
(* legacy envelope and an enhanced envelope that carry the same valid       *)
(* structured call, the network calls it issued for them are the same in    *)
(* URL, verb, headers and body.                                             *)
(***************************************************************************)
C11_LegacyEnhancedEquivalence ==
  \A j1, j2 \in BagToSet(jobs) :
    ( /\ isLegacyProxyRequest(j1.data)
      /\ isEnhancedProxyRequest(j2.data)
      /\ StructuredCallOf(j1.data) = StructuredCallOf(j2.data) )
    => /\ Len(j1.fetches) = 1
       /\ j1.fetches = j2.fetches

\* The same call with params and a signature was served in both formats,
\* with the signature in the body of the outbound request.
C11_Witness ==
  \E j1, j2 \in BagToSet(jobs) :
    /\ isLegacyProxyRequest(j1.data)
    /\ isEnhancedProxyRequest(j2.data)
    /\ StructuredCallOf(j1.data) = StructuredCallOf(j2.data)
    /\ j1.state = "done" /\ j2.state = "done"
    /\ "body" \in DOMAIN j2.fetches[1]
    /\ "signature" \in DOMAIN j2.fetches[1].body

\* The step is a call of the public API (the call that becomes number
\* calls') that leaves the correlation machinery as it was and fails with
\* error e before a correlation id is generated.
FailsBeforeEntering(e) ==
  /\ settle' = Settled(calls', "throw", e)
  /\ UNCHANGED <<clientVars, sent, toServer>>

(***************************************************************************)
(* C12, as stated.  Whenever no target handle is set, a call of any entry   *)
(* point fails immediately with the no-target error: no record is created,  *)
(* no timeout is armed, no counter moves and nothing is sent.               *)
(***************************************************************************)
C12_NoTargetFailsWithNoTarget ==
  [][ (calls' = calls + 1 /\ activeIframe = "null") => FailsBeforeEntering(NoIframeError) ]_vars

(***************************************************************************)
(* C12, amended.  Whenever no target handle is set, a call of any entry     *)
(* point fails immediately, without creating a record, arming a timeout,    *)
(* moving a counter or sending anything: with the no-target error on an     *)
(* initialized Requestor, with the not-initialized error after destroy().   *)
(***************************************************************************)
C12_NoTargetFailsImmediately ==
  [][ (calls' = calls + 1 /\ activeIframe = "null") =>
        FailsBeforeEntering(IF isInitialized THEN NoIframeError ELSE NotInitializedError) ]_vars

\* The handle was cleared while an earlier call was armed, and the next
\* call failed with the no-target error, leaving the earlier one armed.
C12_Witness ==
  /\ isInitialized
  /\ activeIframe = "null"
  /\ calls = 2
  /\ settle[2] = <<[kind |-> "throw", value |-> NoIframeError]>>
  /\ 1 \in DOMAIN pendingRequests
  /\ 1 \in DOMAIN requestTimeouts

\* The arguments `inp` of an entry point fail validation: a structured call
\* whose method is not in the method-to-endpoint table or that lacks the
\* caller or the scope identity, a passthrough call with an empty URL.
FailsValidation(inp) ==
  IF inp.api = "makeDirectRequest" THEN inp.url = ""
  ELSE LET call == IF inp.api = "makeApiRequest" THEN inp.request ELSE inp
       IN  \/ call.method \notin DOMAIN API_ENDPOINTS
           \/ call.userId = ""
           \/ call.communityId = ""

(***************************************************************************)
(* C13.  A call that fails validation on an initialized Requestor with a    *)
(* target set is rejected with an INVALID_REQUEST error without entering    *)
(* the correlation machinery: the pending map, the timeout map, the timers  *)
(* and the counters are unchanged and nothing is sent.                      *)
(***************************************************************************)
C13_InvalidCallNeverEnters ==
  [][ \A inp \in InvalidInputs :
        (FailsValidation(inp) /\ isInitialized /\ activeIframe # "null" /\ Call(inp)) =>
          /\ UNCHANGED <<clientVars, sent, toServer>>
          /\ settle' = Settled(calls', "throw", InputError(inp)) ]_vars

\* `data` is a response or error envelope whose correlation id has no
\* Pending Call Record in the Requestor.
UnknownReply(data) ==
  /\ isProxyApiResponse(data) \/ isProxyError(data)
  /\ data.requestId \notin DOMAIN pendingRequests

(***************************************************************************)
(* C14.  The dispatch of a response or error envelope whose correlation id  *)
(* has no Pending Call Record leaves the Requestor unchanged: its maps,     *)
(* timers, latency window and counters, the continuations of its calls and  *)
(* what it has sent.  This covers late replies to its own calls and the     *)
(* replies to the calls of a sibling instance on the same channel.          *)
(***************************************************************************)
C14_UnknownReplyIgnored ==
  [][ /\ \A ev \in BagToSet(toClient) :
           (UnknownReply(ev.data) /\ ClientReceive(ev)) =>
             UNCHANGED <<clientVars, appVars, toServer>>
      /\ \A data \in StrayEnvelopes :
           (UnknownReply(data) /\ ClientReceiveForeign(data)) =>
             UNCHANGED <<clientVars, appVars, toServer>> ]_vars

\* The reply to the sibling's call has been dispatched while a call of this
\* Requestor was armed, and a late reply to a call of this Requestor has
\* been dispatched after the call was rejected on timeout.
C14_Witness ==
  /\ toClient = EmptyBag
  /\ \E j \in BagToSet(jobs) :
       /\ j.data.requestId = SiblingRequestId
       /\ j.state = "done"
  /\ \E c \in CallIds :
       /\ settle[c] = <<[kind |-> "reject", value |-> TimeoutError]>>
       /\ \E j \in BagToSet(jobs) :
            /\ j.state = "done"
            /\ \E k \in 1..Len(sent[c]) : sent[c][k].data = j.data
  /\ pendingRequests # EmptyMap

\* The Requestor's state apart from the set of scheduled timeout callbacks.
requestorButTimers ==
  <<config, isInitialized, messageListener, activeIframe, pendingRequests,
    requestTimeouts, retryTimers, totalRequests, totalErrors, responseTimes>>

(***************************************************************************)
(* C15.  Of a timeout callback and a matching reply for the same armed      *)
(* correlation id, the one processed first makes the transition and removes *)
(* the record: a reply resolves the call, a timeout sends it to a retry or  *)
(* rejects it.  The one processed second finds no record and is a no-op:    *)
(* no continuation is invoked, no counter changes, no timer is armed or     *)
(* cancelled, nothing is sent.                                              *)
(***************************************************************************)
C15_FirstProcessedWins ==
  [][ /\ \A ev \in BagToSet(toClient) :
           (isProxyApiResponse(ev.data) /\ ClientReceive(ev)) =>
             LET id == ev.data.requestId
             IN  IF id \in DOMAIN pendingRequests
                 THEN /\ id \notin DOMAIN pendingRequests'
                      /\ settle' = Settled(pendingRequests[id].call, "resolve",
                                           ev.data.response)
                      /\ UNCHANGED <<totalErrors, retryTimers>>
                 ELSE UNCHANGED <<clientVars, appVars>>
      /\ \A h \in timers :
           Timeout(h) =>
             LET id == h.requestId
             IN  IF id \in DOMAIN pendingRequests
                 THEN /\ id \notin DOMAIN pendingRequests'
                      /\ UNCHANGED responseTimes
                      /\ \/ /\ retryTimers' # retryTimers
                            /\ UNCHANGED settle
                         \/ /\ retryTimers' = retryTimers
                            /\ settle' = Settled(pendingRequests[id].call, "reject",
                                                 TimeoutError)
                 ELSE UNCHANGED <<requestorButTimers, appVars>> ]_vars

\* A call was rejected when its timeout fired while the matching reply was
\* still queued for dispatch; another call was resolved by its reply.
C15_Witness ==
  /\ \E c \in CallIds :
       /\ settle[c] = <<[kind |-> "reject", value |-> TimeoutError]>>
       /\ \E ev \in BagToSet(toClient) :
            /\ isProxyApiResponse(ev.data)
            /\ ev.data.requestId = sent[c][1].data.requestId
  /\ \E c \in CallIds : Resolved(c)

(***************************************************************************)
(* C16.  The target handle is read when the retry callback runs.  With no   *)
(* handle set, the retry is not sent, no record or timeout is created and   *)
(* the call is rejected with the error recorded when the retry was          *)
(* scheduled.  With a handle set, the call is re-armed and not settled, and *)
(* the only message posted is the retry, with the call's correlation id,    *)
(* to the content window of the handle set at that moment.                  *)
(***************************************************************************)
C16_TargetReadAtRetryTime ==
  [][ \A t \in retryTimers :
        RetryFire(t) =>
          LET c == t.pendingRequest.call
              n == Len(sent[c])
          IN  IF activeIframe = "null"
              THEN /\ UNCHANGED <<sent, toServer, pendingRequests, requestTimeouts, timers>>
                   /\ settle' = Settled(c, "reject", t.lastError)
              ELSE /\ UNCHANGED settle
                   /\ t.pendingRequest.requestId \in DOMAIN pendingRequests'
                   /\ \A d \in CallIds \ {c} : sent'[d] = sent[d]
                   /\ IF HasContentWindow(activeIframe)
                      THEN /\ Len(sent'[c]) = n + 1
                           /\ \A k \in 1..n : sent'[c][k] = sent[c][k]
                           /\ sent'[c][n + 1].target = activeIframe
                           /\ sent'[c][n + 1].data.requestId = t.pendingRequest.requestId
                      ELSE sent'[c] = sent[c] ]_vars

\* The retry of one call went to a target other than the one its first
\* attempt went to, and the retry of another call found the handle cleared
\* on a Requestor that was not torn down.
C16_Witness ==
  /\ isInitialized
  /\ \E c \in CallIds :
       /\ Len(sent[c]) = 2
       /\ sent[c][1].target # sent[c][2].target
  /\ \E c \in CallIds :
       /\ Len(sent[c]) = 1
       /\ settle[c] = <<[kind |-> "reject", value |-> TimeoutError]>>
       /\ config.maxRetries >= 1

C18_DestroyedResponderIgnores ==
  [][ ~serverInitialized =>
        /\ \A ev \in BagToSet(toServer) :
             ServerReceive(ev) => UNCHANGED <<requestCount, errorCount, jobs, toClient>>
        /\ ServerDestroy => UNCHANGED vars ]_vars

\* One request was served before destroy(); a well-formed request delivered
\* after it was left without job, reply or count.
C18_Witness ==
  /\ ~serverInitialized
  /\ requestCount = 1
  /\ \E j \in BagToSet(jobs) : j.state = "done"
  /\ \E ev \in BagToSet(dispatched) :
       /\ isAnyProxyRequest(ev.data)
       /\ validateProxyRequest(RequestOf(ev.data))
       /\ \A j \in BagToSet(jobs) : j.data # ev.data \/ j.origin # ev.origin

(***************************************************************************)
(* C19.  Configured without a whitelist, the Responder, while it listens,   *)
(* accepts every request envelope whatever its origin: the dispatch counts  *)
(* the request and starts its processing, and every accepted request is     *)
(* answered with one reply to its sender once its processing has finished.  *)
(***************************************************************************)
C19_NoWhitelistTrustsAll ==
  /\ [](\A j \in BagToSet(jobs) :
          j.state = "done" => Len(j.posts) = 1 /\ j.posts[1].to = j.source)
  /\ [][ \A ev \in BagToSet(toServer) :
           ( /\ Len(serverConfig.allowedOrigins) = 0
             /\ serverListener
             /\ isAnyProxyRequest(ev.data)
             /\ ServerReceive(ev) ) =>
             /\ requestCount' = requestCount + 1
             /\ \E j \in BagToSet(jobs') :
                  /\ j.data = ev.data /\ j.origin = ev.origin /\ j.source = ev.source
                  /\ CopiesIn(j, jobs') = CopiesIn(j, jobs) + 1 ]_vars

\* Valid requests from the opaque origin and from an ordinary origin have
\* both been served with a success.
C19_Witness ==
  /\ serverConfig.allowedOrigins = << >>
  /\ \E j \in BagToSet(jobs) :
       j.origin = OpaqueOrigin /\ j.state = "done" /\ j.posts[1].data.response.success
  /\ \E j \in BagToSet(jobs) :
       j.origin # OpaqueOrigin /\ j.state = "done" /\ j.posts[1].data.response.success

(***************************************************************************)
(* C20.  The delay the Requestor waits before a retry of a call is longer   *)
(* than the delay it waited before the previous retry of that call.         *)
(***************************************************************************)
C20_RetryDelayGrows ==
  \A c \in CallIds :
    \A k \in 2..Len(waits[c]) : waits[c][k] > waits[c][k - 1]

(***************************************************************************)
(* C22.  Once a call has been resolved, nothing more happens for its        *)
(* correlation id: no record, armed timeout or scheduled retry remains for  *)
(* it, no request with that id is sent again, and no later reply, error     *)
(* envelope or teardown invokes its continuations.                          *)
(***************************************************************************)
C22_ResolvedIsFinal ==
  /\ [](\A c \in CallIds :
          Resolved(c) =>
            LET id == sent[c][1].data.requestId
            IN  /\ id \notin DOMAIN pendingRequests
                /\ id \notin DOMAIN requestTimeouts
                /\ \A h \in timers : h.requestId # id
                /\ \A t \in retryTimers : t.pendingRequest.requestId # id)
  /\ [][ \A c \in CallIds :
           Resolved(c) => settle'[c] = settle[c] /\ sent'[c] = sent[c] ]_vars

\* A call resolved after a retry and the Requestor was then torn down, which
\* rejected the other call, still in flight, and left the resolved one alone.
C22_Witness ==
  /\ ~isInitialized
  /\ \E c, d \in CallIds :
       /\ Resolved(c) /\ Len(sent[c]) = 2 /\ Len(settle[c]) = 1
       /\ Rejected(d) /\ settle[d][1].value = DestroyedError

(***************************************************************************)
(* C23.  The pending map holds a record for every call that was issued and  *)
(* is not yet settled, also while the call waits out a retry delay, so the  *)
(* in-flight count of the status snapshot (the size of the map) equals the  *)
(* number of issued but unsettled calls.                                    *)
(***************************************************************************)
C23_PendingCountsUnsettled ==
  Cardinality(DOMAIN pendingRequests)
    = Cardinality({c \in CallIds : Entered(c) /\ settle[c] = << >>})

(***************************************************************************)
(* C24.  Every retry of a call sends the envelope of the call's first       *)
(* transmission again - same correlation id, same format, same payload -    *)
(* and the record it restores has a live timeout of its own attempt.        *)
(***************************************************************************)
C24_RetryResendsSameEnvelope ==
  /\ \A c \in CallIds :
       \A k \in 2..Len(sent[c]) : sent[c][k].data = sent[c][1].data
  /\ \A id \in DOMAIN pendingRequests :
       /\ id \in DOMAIN requestTimeouts
       /\ requestTimeouts[id] \in timers
       /\ requestTimeouts[id].timeoutId = pendingRequests[id].retryCount

(***************************************************************************)
(* C28.  The latency window never holds more than 100 samples; a step in    *)
(* which a call is resolved appends that call's sample and keeps the most   *)
(* recent 100, and every other step - a rejection, an ignored reply, a      *)
(* timeout, a retry - leaves the window as it was.                          *)
(***************************************************************************)
C28_LatencyWindow ==
  /\ [](Len(responseTimes) <= ResponseWindow)
  /\ [][ LET resolvedNow ==
               {c \in CallIds :
                  /\ Len(settle'[c]) = Len(settle[c]) + 1
                  /\ settle'[c][Len(settle'[c])].kind = "resolve"}
             Recent(s) ==
               IF Len(s) > ResponseWindow
               THEN SubSeq(s, Len(s) - ResponseWindow + 1, Len(s))
               ELSE s
         IN  IF resolvedNow = {}
             THEN responseTimes' = responseTimes
             ELSE \E c \in resolvedNow :
                    responseTimes' =
                      Recent(responseTimes \o <<sent[c][1].data.requestId>>) ]_vars

\* The window was full; two more calls were made and, after an error on the
\* way, resolved in the reverse of the order they were made: the two oldest
\* samples are gone and the two new ones are at the end, in resolution order.
C28_Witness ==
  /\ Len(responseTimes) = ResponseWindow
  /\ responseTimes[1] = 3
  /\ responseTimes[ResponseWindow - 1] = ResponseWindow + 2
  /\ responseTimes[ResponseWindow] = ResponseWindow + 1
  /\ totalErrors >= 1

(***************************************************************************)
(* C25.  The headers of the network call made for a structured call are the *)
(* configured default headers merged under the call-specific ones: the      *)
(* call-specific Content-Type, and on the communities endpoint the bearer   *)
(* Authorization, are sent with the value the call-specific logic gives     *)
(* them, and every other configured header is sent as configured.           *)
(***************************************************************************)
C25_CallSpecificHeadersWin ==
  \A j \in BagToSet(jobs) :
    \A n \in 1..Len(j.fetches) :
      LET fetch == j.fetches[n]
          callSpecific ==
            IF fetch.endpoint = "/api/communities"
            THEN ("Authorization" :> ("Bearer " \o SessionToken(RequestOf(j.data))))
                   @@ JsonHeader
            ELSE JsonHeader
      IN  fetch.kind = "plugin" =>
            /\ DOMAIN fetch.headers = DOMAIN callSpecific \cup DOMAIN serverConfig.headers
            /\ \A k \in DOMAIN callSpecific : fetch.headers[k] = callSpecific[k]
            /\ \A k \in DOMAIN serverConfig.headers \ DOMAIN callSpecific :
                 fetch.headers[k] = serverConfig.headers[k]

\* The envelope is a request envelope whose `request` field is an object
\* with a variant tag that is neither structured nor passthrough.
HasUnknownVariant(message) ==
  /\ HasType(message, PROXY_API_REQUEST)
  /\ HasRequestId(message)
  /\ HasRequest(message)
  /\ "type" \in DOMAIN message.request
  /\ message.request.type \notin {"plugin", "direct"}

(***************************************************************************)
(* C26.  A request envelope whose `request` field has an unknown variant    *)
(* tag, once dispatched to the listening Responder, has been answered: one  *)
(* failure reply was posted to its sender and no network call was made.     *)
(***************************************************************************)
C26_UnknownVariantRejected ==
  \A ev \in BagToSet(dispatched) :
    HasUnknownVariant(ev.data) =>
      \E j \in BagToSet(jobs) :
        /\ j.data = ev.data /\ j.origin = ev.origin /\ j.source = ev.source
        /\ j.fetches = << >>
        /\ j.state = "done"
        /\ FailureReply(j)
        /\ j.posts[1].to = ev.source

C21_ShortTimeoutRefused ==
  ( /\ construction.result # "none"
    /\ "timeout" \in DOMAIN construction.config
    /\ construction.config.timeout < MinTimeout ) =>
      /\ construction.result # "ok"
      /\ ~serverListener
      /\ toParent = << >>

(***************************************************************************)
(* C29.  A Responder constructed in a nested window has posted exactly one  *)
(* ready notification to its parent, one constructed in a top-level window  *)
(* (or whose construction failed) has posted none; from the moment the      *)
(* notification is out until destroy() the listener is attached, so a       *)
(* request the parent posts in reaction to it is taken up by the handler.   *)
(***************************************************************************)
C29_ReadyAfterListening ==
  /\ [](toParent = IF construction.result = "ok" /\ construction.nested
                   THEN <<ReadyNotification>> ELSE << >>)
  /\ []((toParent # << >> /\ serverInitialized) => serverListener)
  /\ [][ \A ev \in BagToSet(toServer) :
           (ev.source = "parent" /\ serverInitialized /\ ServerReceive(ev)) =>
             /\ requestCount' = requestCount + 1
             /\ \E j \in BagToSet(jobs') :
                  j.data = ev.data /\ j.source = "parent"
                    /\ CopiesIn(j, jobs') = CopiesIn(j, jobs) + 1 ]_vars

\* Constructed in a nested window; a request the parent posted on the ready
\* notification has been served, and one posted by another page before the
\* construction was lost.
C29_Witness ==
  /\ construction.result = "ok" /\ construction.nested
  /\ \E j \in BagToSet(jobs) :
       j.source = "parent" /\ j.state = "done" /\ j.posts[1].data.response.success
  /\ \E ev \in BagToSet(dispatched) :
       ev.source = "foreign" /\ \A j \in BagToSet(jobs) : j.source # "foreign"

(***************************************************************************)
(* C30.  Debug mode never changes behaviour: whatever the debug flags of    *)
(* the Requestor and of the Responder, every step either of them takes -    *)
(* a call, a timeout, the dispatch of a request, the return of a network    *)
(* call - is the step the same handler takes with its debug blocks skipped: *)
(* same messages, same network calls, same settlements, same counters.  As  *)
(* both start from the same state, a run with debug enabled and the run     *)
(* with debug disabled on the same events go through the same states.       *)
(***************************************************************************)
C30_DebugChangesNothing ==
  [][ /\ \A inp \in DebugInputs : CallDebug(inp) => Call(inp)
      /\ \A h \in timers : TimeoutDebug(h) => Timeout(h)
      /\ \A ev \in BagToSet(toServer) : ServerReceiveDebug(ev) => ServerReceive(ev)
      /\ \A j \in BagToSet(jobs) : \A outcome \in {"ok", "http_error"} :
           FetchReturnDebug(j, outcome) => FetchReturn(j, outcome) ]_vars

\* With debug enabled on both sides a call timed out, was retried and was
\* resolved with the backend's result.
C30_Witness ==
  /\ config.debug /\ serverConfig.debug
  /\ totalErrors = 1
  /\ \E c \in CallIds :
       /\ Resolved(c) /\ Len(sent[c]) = 2
       /\ settle[c][1].value.success

\* The entry read as the claim reads it: each "*" stands for an arbitrary,
\* possibly empty, substring and every other character for itself.
RECURSIVE WildcardAdmits(_, _)
WildcardAdmits(entry, origin) ==
  IF entry = << >> THEN origin = << >>
  ELSE IF Head(entry) = "*"
  THEN WildcardAdmits(Tail(entry), origin)
         \/ (origin # << >> /\ WildcardAdmits(entry, Tail(origin)))
  ELSE /\ origin # << >>
       /\ Head(entry) = Head(origin)
       /\ WildcardAdmits(Tail(entry), Tail(origin))

(***************************************************************************)
(* C31.  With a non-empty whitelist, the Responder acts on a request        *)
(* envelope exactly when its origin equals an entry or is obtained from an  *)
(* entry containing "*" by replacing each "*" with a substring, every other *)
(* character of the entry matching only itself.                             *)
(***************************************************************************)
C31_WildcardIsLiteral ==
  LET allowed == serverConfig.allowedOrigins
      Literal(origin) ==
        \E i \in 1..Len(allowed) : WildcardAdmits(allowed[i], origin)
  IN  Len(allowed) > 0 =>
        /\ \A j \in BagToSet(jobs) : Literal(j.origin)
        /\ \A ev \in BagToSet(dispatched) :
             (isAnyProxyRequest(ev.data) /\ Literal(ev.origin)) =>
               \E j \in BagToSet(jobs) : j.data = ev.data /\ j.origin = ev.origin

\* The Responder's listener is attached and takes the event for a request
\* envelope from an origin it admits.
ListenerAccepts(ev) ==
  /\ serverListener
  /\ Len(serverConfig.allowedOrigins) > 0 =>
       isOriginAllowed(ev.origin, serverConfig.allowedOrigins)
  /\ IsObject(ev.data)
  /\ isAnyProxyRequest(ev.data)

(***************************************************************************)
(* C32.  The Responder's counters: errorCount never exceeds requestCount;   *)
(* requestCount is the number of request envelopes accepted and errorCount  *)
(* the number of those answered with a failure reply; the dispatch of an    *)
(* accepted request envelope adds exactly one to requestCount and sets the  *)
(* last-request time, the dispatch of a message dropped by the origin check *)
(* or not recognised as a request envelope changes neither counter nor the  *)
(* last-request time, and the end of a network call adds one to errorCount  *)
(* exactly when it posts a failure reply.                                   *)
(***************************************************************************)
C32_ResponderCounters ==
  /\ [](/\ errorCount <= requestCount
        /\ requestCount = BagCardinality(jobs)
        /\ errorCount = CountIn(jobs, FailureReply)
        /\ (requestCount = 0) = (lastRequestTime = 0))
  /\ [][ \A ev \in BagToSet(toServer) :
           ServerReceive(ev) =>
             IF ListenerAccepts(ev)
             THEN /\ requestCount' = requestCount + 1
                  /\ lastRequestTime' > lastRequestTime
                  /\ errorCount' \in {errorCount, errorCount + 1}
             ELSE UNCHANGED <<requestCount, errorCount, lastRequestTime>> ]_vars
  /\ [][ \A j \in BagToSet(jobs) : \A outcome \in NetOutcomes :
           FetchReturn(j, outcome) =>
             /\ UNCHANGED <<requestCount, lastRequestTime>>
             /\ errorCount' - errorCount =
                  CountIn(jobs', FailureReply) - CountIn(jobs, FailureReply)
             /\ errorCount' \in {errorCount, errorCount + 1} ]_vars

\* Under a whitelist, a request envelope was accepted and answered with a
\* failure, and after it a request envelope from an origin the whitelist
\* does not admit was dispatched and dropped: the counters and the
\* last-request time are those of the first.
C32_Witness ==
  /\ Len(serverConfig.allowedOrigins) > 0
  /\ \E ev \in BagToSet(dispatched) :
       isAnyProxyRequest(ev.data)
         /\ ~isOriginAllowed(ev.origin, serverConfig.allowedOrigins)
  /\ requestCount = 1
  /\ errorCount = 1
  /\ lastRequestTime = 1
  /\ BagCardinality(dispatched) = 2

(***************************************************************************)
(* C33.  Between callbacks the Requestor's timeout map and its pending map  *)
(* hold the same correlation ids, and the timeout handle of each is armed.  *)
(***************************************************************************)
C33_TimeoutsMatchPending ==
  /\ DOMAIN requestTimeouts = DOMAIN pendingRequests
  /\ \A id \in DOMAIN requestTimeouts : requestTimeouts[id] \in timers
  /\ \A h \in timers :
       h.requestId \in DOMAIN requestTimeouts /\ requestTimeouts[h.requestId] = h

\* A call that timed out and was re-sent is pending with its timeout armed,
\* while another call has been rejected and has left both maps.
C33_Witness ==
  /\ \E id \in DOMAIN pendingRequests :
       /\ pendingRequests[id].retryCount = 1
       /\ requestTimeouts[id] \in timers
  /\ \E c \in CallIds : Rejected(c)
  /\ Cardinality(DOMAIN requestTimeouts) = 1

\* The retry counts the Requestor holds for call c: in its pending record
\* or in the closure of its scheduled retry.
RetryCountsOf(pending, closures, c) ==
  { pending[id].retryCount : id \in {x \in DOMAIN pending : pending[x].call = c} }
    \cup { t.pendingRequest.retryCount :
             t \in {x \in closures : x.pendingRequest.call = c} }

(***************************************************************************)
(* C34.  Whatever the mix of timeouts and error envelopes, the retry count  *)
(* of a call never decreases and never exceeds maxRetries, and the request  *)
(* is transmitted at most maxRetries + 1 times; with maxRetries = 0 no      *)
(* retry is ever scheduled, and the first timeout or error envelope for a   *)
(* pending call rejects it.                                                 *)
(***************************************************************************)
C34_GeneralRetryBound ==
  /\ [](\A c \in CallIds :
          /\ \A n \in RetryCountsOf(pendingRequests, retryTimers, c) :
               n <= config.maxRetries
          /\ Len(sent[c]) <= config.maxRetries + 1
          /\ config.maxRetries = 0 =>
               /\ Len(sent[c]) <= 1
               /\ \A t \in retryTimers : t.pendingRequest.call # c)
  /\ [][ \A c \in CallIds :
           /\ \A n \in RetryCountsOf(pendingRequests, retryTimers, c) :
                \A m \in RetryCountsOf(pendingRequests', retryTimers', c) : m >= n
           /\ ( /\ config.maxRetries = 0
                /\ \E id \in DOMAIN pendingRequests : pendingRequests[id].call = c
                /\ totalErrors' = totalErrors + 1
                /\ \A id \in DOMAIN pendingRequests' : pendingRequests'[id].call # c )
              => Rejected(c)' /\ sent'[c] = sent[c] ]_vars

\* Configured with one retry, two calls were each transmitted twice and
\* rejected, one by a timeout and the other by an error envelope.
C34_Witness ==
  /\ config.maxRetries = 1
  /\ \E c \in CallIds :
       Rejected(c) /\ Len(sent[c]) = 2 /\ settle[c][1].value = TimeoutError
  /\ \E c \in CallIds :
       Rejected(c) /\ Len(sent[c]) = 2 /\ settle[c][1].value.type = "NETWORK_ERROR"
  /\ totalErrors = 4

\* The correlation id of call c is waiting out a retry delay: its retry is
\* scheduled and it has no pending record.
InRetryDelay(id) ==
  /\ \E t \in retryTimers : t.pendingRequest.requestId = id
  /\ id \notin DOMAIN pendingRequests

(***************************************************************************)
(* C35.  A response envelope dispatched while its call waits out a retry    *)
(* delay is ignored: the Requestor's state, the call's outcome and the      *)
(* scheduled retry stay as they are; when the retry timer fires the request *)
(* is sent again; and a call is resolved only by a step taken while its     *)
(* record is pending and its timeout armed.                                 *)
(***************************************************************************)
C35_LateReplyIgnored ==
  /\ [][ \A ev \in BagToSet(toClient) :
           ( /\ ClientReceive(ev)
             /\ isProxyApiResponse(ev.data)
             /\ InRetryDelay(ev.data.requestId) ) =>
             UNCHANGED <<clientVars, appVars>> ]_vars
  /\ [][ \A t \in retryTimers :
           RetryFire(t) =>
             /\ Len(sent'[t.pendingRequest.call]) = Len(sent[t.pendingRequest.call]) + 1
             /\ t.pendingRequest.requestId \in DOMAIN pendingRequests'
             /\ settle' = settle ]_vars
  /\ [][ \A c \in CallIds :
           (Resolved(c)' /\ ~Resolved(c)) =>
             \E id \in DOMAIN pendingRequests :
               /\ pendingRequests[id].call = c
               /\ requestTimeouts[id] \in timers ]_vars

\* The reply to the first transmission of a call was dispatched and
\* ignored during the retry delay (it is neither in flight nor did it
\* resolve the call), and the request has been sent again: the second
\* transmission is in flight and the call is pending.
C35_Witness ==
  \E c \in CallIds :
    /\ Len(sent[c]) = 2
    /\ settle[c] = << >>
    /\ \E id \in DOMAIN pendingRequests : pendingRequests[id].call = c
    /\ toClient = EmptyBag
    /\ BagCardinality(toServer) = 1
    /\ BagCardinality(jobs) = 1
    /\ \A j \in BagToSet(jobs) :
         /\ j.state = "done"
         /\ j.data.requestId = sent[c][1].data.requestId
         /\ j.posts[1].data.response.success
    /\ calls = 1

(***************************************************************************)
(* C36.  A response envelope whose response has success = false, dispatched *)
(* while its call is pending, resolves the call with that response: the     *)
(* call is fulfilled, not rejected, no retry is scheduled, the Requestor's   *)
(* error count is unchanged and one latency sample is recorded.             *)
(***************************************************************************)
C36_FailureResponseResolves ==
  [][ \A ev \in BagToSet(toClient) :
        ( /\ ClientReceive(ev)
          /\ messageListener
          /\ isProxyApiResponse(ev.data)
          /\ ~ev.data.response.success
          /\ ev.data.requestId \in DOMAIN pendingRequests ) =>
          LET c == pendingRequests[ev.data.requestId].call
          IN  /\ settle'[c] = Append(settle[c], [kind |-> "resolve", value |-> ev.data.response])
              /\ ev.data.requestId \notin DOMAIN pendingRequests'
              /\ UNCHANGED <<retryTimers, waits, totalErrors, sent>>
              /\ Len(responseTimes') = Len(responseTimes) + 1 ]_vars

\* A call was resolved with the failure the Responder reported, without an
\* error counted or a retry.
C36_Witness ==
  /\ \E c \in CallIds :
       /\ settle[c] # << >>
       /\ settle[c][1].kind = "resolve"
       /\ ~settle[c][1].value.success
       /\ Len(sent[c]) = 1
  /\ totalErrors = 0
  /\ Len(responseTimes) = 1
  /\ errorCount = 1

(***************************************************************************)
(* C37.  The Requestor checks neither origin nor source of an inbound       *)
(* message: a response envelope posted by any other context with the        *)
(* correlation id of a pending call resolves that call with its response,   *)
(* and an error envelope posted by any other context with that id counts an *)
(* error and retries the call or, with no retry left, rejects it.           *)
(***************************************************************************)
C37_NoSenderCheck ==
  [][ \A data \in ErrorEnvelopes \cup ResponseEnvelopes :
        (ClientReceiveForeign(data) /\ data.requestId \in DOMAIN pendingRequests) =>
          LET pendingRequest == pendingRequests[data.requestId]
              c == pendingRequest.call
          IN  /\ data.requestId \notin DOMAIN pendingRequests'
              /\ requestTimeouts[data.requestId] \notin timers'
              /\ IF isProxyApiResponse(data)
                 THEN /\ settle'[c] = Append(settle[c],
                                             [kind |-> "resolve", value |-> data.response])
                      /\ UNCHANGED <<totalErrors, retryTimers>>
                 ELSE /\ totalErrors' = totalErrors + 1
                      /\ IF pendingRequest.retryCount < config.maxRetries
                         THEN /\ settle' = settle
                              /\ \E t \in retryTimers' \ retryTimers :
                                   t.pendingRequest.requestId = data.requestId
                         ELSE /\ settle'[c] = Append(settle[c],
                                 [kind |-> "reject",
                                  value |-> createProxyError("NETWORK_ERROR", data.error)])
                              /\ retryTimers' = retryTimers ]_vars

\* Envelopes of another context resolved one call and rejected another,
\* while the request of neither reached the Responder.
C37_Witness ==
  /\ \E c \in CallIds :
       /\ Resolved(c)
       /\ settle[c][1].value \in {data.response : data \in ResponseEnvelopes}
  /\ \E c \in CallIds :
       /\ Rejected(c)
       /\ settle[c][1].value.type = "NETWORK_ERROR"
  /\ dispatched = EmptyBag
  /\ jobs = EmptyBag

(***************************************************************************)
(* C38.  For a legacy envelope the network path is the one the              *)
(* method-to-endpoint table gives for payload.method, whatever the          *)
(* envelope's `endpoint` field: two legacy envelopes with the same payload  *)
(* produce the same network call.                                           *)
(***************************************************************************)
C38_EndpointFieldUnused ==
  \A j \in BagToSet(jobs) :
    isLegacyProxyRequest(j.data) =>
      /\ Len(j.fetches) = 1
      /\ j.fetches[1].url = Url(serverConfig.baseUrl, methodToEndpoint[j.data.payload.method])
      /\ \A k \in BagToSet(jobs) :
           (isLegacyProxyRequest(k.data) /\ k.data.payload = j.data.payload) =>
             k.fetches = j.fetches

\* Two legacy envelopes with the same payload and different `endpoint`
\* fields, one of them outside the table, have both been served.
C38_Witness ==
  \E j, k \in BagToSet(jobs) :
    /\ j.data.payload = k.data.payload
    /\ j.data.endpoint = "/api/admin"
    /\ k.data.endpoint = methodToEndpoint[k.data.payload.method]
    /\ j.state = "done" /\ k.state = "done"
    /\ j.posts[1].data.response.success

(***************************************************************************)
(* C39.  The Responder's destroy() cancels nothing it has accepted: it      *)
(* leaves every request and the counters as they are; a network call that   *)
(* returns after destroy() still ends with one reply posted to the sender   *)
(* of its request, and adds one to the error counter when that reply is a   *)
(* failure; every finished request has exactly one reply.                   *)
(***************************************************************************)
C39_DestroyCancelsNothing ==
  /\ [](\A j \in BagToSet(jobs) :
          /\ j.state = "done" => Len(j.posts) = 1 /\ j.posts[1].to = j.source
          /\ j.state = "fetching" => j.posts = << >>)
  /\ [][ ServerDestroy => UNCHANGED <<jobs, requestCount, errorCount, toClient>> ]_vars
  /\ [][ \A j \in BagToSet(jobs) : \A outcome \in {"ok", "http_error"} :
           (~serverListener /\ FetchReturn(j, outcome)) =>
             \E done \in BagToSet(jobs') :
               /\ CopiesIn(done, jobs') = CopiesIn(done, jobs) + 1
               /\ CopiesIn(j, jobs') = CopiesIn(j, jobs) - 1
               /\ done.data = j.data /\ done.source = j.source
               /\ done.state = "done"
               /\ Len(done.posts) = 1
               /\ done.posts[1].to = j.source
               /\ done.posts[1].data.requestId = j.data.requestId
               /\ errorCount' =
                    IF done.posts[1].data.response.success
                    THEN errorCount ELSE errorCount + 1 ]_vars

\* After destroy() one outstanding network call returned with a success and
\* another with a failure: both requests were answered while no listener
\* was attached, and the error counter went from 0 to 1.
C39_Witness ==
  /\ ~serverListener
  /\ errorCount = 1
  /\ \E j \in BagToSet(jobs) :
       /\ j.state = "done" /\ ~j.posts[1].listening
       /\ j.posts[1].data.response.success
  /\ \E j \in BagToSet(jobs) :
       /\ j.state = "done" /\ ~j.posts[1].listening
       /\ ~j.posts[1].data.response.success
       /\ Len(j.fetches) = 1
  /\ \A j \in BagToSet(jobs) : j.state = "done" /\ ~j.posts[1].listening

====
